---- MODULE Spec2Model ----
(***************************************************************************)
(* Model of the OTE spot-price store (src/src/ote/db.py) and of the        *)
(* forecast layer built on it (src/src/ote/forecast.py).                   *)
(*                                                                         *)
(* The store is the single table spot_prices.  Dates and datetimes are     *)
(* written to it as ISO text and compared as text, as SQLite does; the     *)
(* model keeps that text (a sequence of decimal digits, the constant       *)
(* separators left out) and parses it back when a query returns.           *)
(* A date is its ordinal day number.  A REAL is an integer number of       *)
(* units 1/One; arithmetic on REALs rounds to Precision significant bits.  *)
(***************************************************************************)
EXTENDS Integers, Sequences, FiniteSets, TLC

VARIABLES rows, call, ret, fresh, resaved, savedDates

vars == <<rows, call, ret, fresh, resaved, savedDates>>

(***************************************************************************)
(* Bounds of the model.                                                    *)
(***************************************************************************)
NumDates == 2
MaxLen == 2
MaxDaysAhead == 3
Precision == 3
FracBits == 2

(* date.today(); the ordinal is chosen so that two- and three-digit day    *)
(* numbers occur among the dates of the model.                             *)
Today == 100

(***************************************************************************)
(* REAL arithmetic.  A REAL v is held as the integer v * One.  The format  *)
(* has Precision significant bits and its smallest step is 1/One: an       *)
(* integer k is a REAL iff k = m * 2^e with |m| < 2^Precision and e >= 0.  *)
(* Every operation rounds its exact result to the nearest REAL, ties to    *)
(* the even significand (IEEE 754 binary64 has 53 significant bits).       *)
(***************************************************************************)
RECURSIVE Pow2(_)
Pow2(n) == IF n = 0 THEN 1 ELSE 2 * Pow2(n - 1)

One == Pow2(FracBits)

Abs(x) == IF x < 0 THEN -x ELSE x

(* n/d (d > 0) rounded to the nearest integer, ties to even. *)
RoundInt(n, d) ==
    LET q == n \div d
        r == n % d
    IN IF 2 * r < d THEN q
       ELSE IF 2 * r > d THEN q + 1
       ELSE IF q % 2 = 0 THEN q ELSE q + 1

(* The spacing of the REALs around n/d. *)
RECURSIVE Ulp(_, _, _)
Ulp(n, d, s) == IF Abs(n) < Pow2(Precision) * d * s THEN s ELSE Ulp(n, d, 2 * s)

(* n/d (d > 0) rounded to a REAL; zero is exact. *)
RoundReal(n, d) ==
    IF n = 0 THEN 0 ELSE LET s == Ulp(n, d, 1) IN s * RoundInt(n, d * s)

RealAdd(a, b) == RoundReal(a + b, 1)

RealSub(a, b) == RoundReal(a - b, 1)

RealMul(a, b) == RoundReal(a * b, One)

(* The REAL a decimal literal num/den of the source denotes. *)
RealLit(num, den) == RoundReal(num * One, den)

(* The largest integer whose square is at most n (n >= 0). *)
RECURSIVE ISqrtFrom(_, _)
ISqrtFrom(n, f) == IF (f + 1) * (f + 1) > n THEN f ELSE ISqrtFrom(n, f + 1)

(* a ** 0.5 for a REAL a >= 0: the square root, rounded to a REAL. *)
RealSqrt(a) ==
    LET n == a * One
        f == ISqrtFrom(n, 0)
        s == Ulp(f, 1, 1)
        lo == (f \div s) * s
        hi == lo + s
    IN IF 4 * n < (lo + hi) * (lo + hi) THEN lo
       ELSE IF 4 * n > (lo + hi) * (lo + hi) THEN hi
       ELSE IF (lo \div s) % 2 = 0 THEN lo ELSE hi

(* a / n for a REAL a and a positive integer n *)
RealDivInt(a, n) == RoundReal(a, n)

(* k is a value of the format. *)
IsReal(k) == RoundReal(k, 1) = k

(* The sum SQLite's SUM()/AVG() accumulates over REAL values, in the order *)
(* the rows are visited.                                                   *)
RECURSIVE RealSum(_, _, _)
RealSum(xs, i, acc) ==
    IF i > Len(xs) THEN acc ELSE RealSum(xs, i + 1, RealAdd(acc, xs[i]))

(***************************************************************************)
(* ISO text.                                                               *)
(***************************************************************************)
Two(n) == <<n \div 10, n % 10>>

(* date.isoformat(): fields of fixed width, zero padded. *)
DateIso(d) == <<d \div 100>> \o Two(d % 100)

(* date.fromisoformat() *)
DateFromIso(t) == 100 * t[1] + 10 * t[2] + t[3]

(* datetime.isoformat() *)
DateTimeIso(t) == DateIso(t.date) \o Two(t.hour) \o Two(t.minute) \o Two(t.second)

(* datetime.fromisoformat() *)
DateTimeFromIso(t) ==
    [date |-> DateFromIso(SubSeq(t, 1, 3)),
     hour |-> 10 * t[4] + t[5],
     minute |-> 10 * t[6] + t[7],
     second |-> 10 * t[8] + t[9]]

(* Comparison of TEXT values: byte by byte, a proper prefix sorts first. *)
TextLess(a, b) ==
    \/ \E i \in 1..Len(a) :
          /\ i <= Len(b)
          /\ a[i] < b[i]
          /\ \A j \in 1..(i - 1) : a[j] = b[j]
    \/ /\ Len(a) < Len(b)
       /\ \A j \in 1..Len(a) : a[j] = b[j]

TextLeq(a, b) == a = b \/ TextLess(a, b)

(***************************************************************************)
(* SpotPrice and the rows of spot_prices.                                  *)
(***************************************************************************)
DateTime(d, h, m, s) == [date |-> d, hour |-> h, minute |-> m, second |-> s]

SpotPrice(tf, tt, eur, czk) ==
    [time_from |-> tf, time_to |-> tt, price_eur |-> eur, price_czk |-> czk]

(* The parameter tuple save_prices binds for one price. *)
RowOf(report_date, p, eur_czk_rate) ==
    [report_date |-> DateIso(report_date),
     time_from |-> DateTimeIso(p.time_from),
     time_to |-> DateTimeIso(p.time_to),
     price_eur |-> p.price_eur,
     price_czk |-> p.price_czk,
     eur_czk_rate |-> eur_czk_rate]

(* A schema set-up that creates the table anew. *)
init_db_recreate(table) == {}

(* CREATE TABLE IF NOT EXISTS, CREATE INDEX IF NOT EXISTS: the rows of an  *)
(* existing table are kept.                                                *)
init_db(table) == table

(* UNIQUE(report_date, time_from) *)
Conflict(r, s) == r.report_date = s.report_date /\ r.time_from = s.time_from

(* A plain INSERT into a table without the uniqueness constraint. *)
InsertOnly(table, row) == table \cup {row}

(* INSERT OR IGNORE: a row that violates the constraint is not written. *)
InsertOrIgnore(table, row) ==
    IF \E r \in table : Conflict(r, row) THEN table ELSE table \cup {row}

(* INSERT OR REPLACE: the rows that violate the uniqueness constraint are  *)
(* deleted, then the new row is inserted.                                  *)
InsertOrReplace(table, row) == {r \in table : ~Conflict(r, row)} \cup {row}

(* A count of the rows that were new to the table. *)
ChangesNewOnly(table, row) == IF \E r \in table : Conflict(r, row) THEN 0 ELSE 1

(* The number of changes sqlite3 adds to cursor.rowcount for one statement *)
(* of the executemany: the inserted row; rows deleted by REPLACE are not   *)
(* counted.                                                                *)
Changes(table, row) == 1

RECURSIVE executemany(_, _, _, _)
executemany(table, params, i, rowcount) ==
    IF i > Len(params)
    THEN [table |-> table, rowcount |-> rowcount]
    ELSE executemany(InsertOrReplace(table, params[i]), params, i + 1,
                     rowcount + Changes(table, params[i]))

(* A save that keeps the rows of this call only. *)
save_prices_anew(table, report_date, prices, eur_czk_rate) ==
    executemany({},
                [i \in 1..Len(prices) |-> RowOf(report_date, prices[i], eur_czk_rate)],
                1, 0)

save_prices(table, report_date, prices, eur_czk_rate) ==
    executemany(init_db(table),
                [i \in 1..Len(prices) |-> RowOf(report_date, prices[i], eur_czk_rate)],
                1, 0)

(* ORDER BY time_from; rows of equal time_from in the order of the index   *)
(* on report_date.                                                         *)
RowBefore(r, s) ==
    \/ TextLess(r.time_from, s.time_from)
    \/ r.time_from = s.time_from /\ TextLess(r.report_date, s.report_date)

(* ORDER BY time_from DESC *)
OrderByTimeFromDesc(S) ==
    LET ranked == {<<Cardinality({s \in S : RowBefore(r, s)}), r>> : r \in S}
    IN [i \in 1..Cardinality(S) |-> (CHOOSE p \in ranked : p[1] = i - 1)[2]]

(* The i-th row fetched is the one that i - 1 rows of S come before. *)
OrderByTimeFrom(S) ==
    LET ranked == {<<Cardinality({s \in S : RowBefore(s, r)}), r>> : r \in S}
    IN [i \in 1..Cardinality(S) |-> (CHOOSE p \in ranked : p[1] = i - 1)[2]]

(* The SpotPrice built from a fetched row. *)
SpotPriceOfRow(r) ==
    SpotPrice(DateTimeFromIso(r.time_from), DateTimeFromIso(r.time_to),
              r.price_eur, r.price_czk)

RowsOfDate(table, report_date) ==
    {r \in table : r.report_date = DateIso(report_date)}

get_prices_for_date(table, report_date) ==
    LET fetched == OrderByTimeFrom(RowsOfDate(init_db(table), report_date))
    IN [i \in 1..Len(fetched) |-> SpotPriceOfRow(fetched[i])]

(* The orders in which a scan may visit the rows of S. *)
Enumerations(S) ==
    {f \in [1..Cardinality(S) -> S] : \A i, j \in 1..Cardinality(S) : i # j => f[i] # f[j]}

SetMin(S) == CHOOSE x \in S : \A y \in S : x <= y

SetMax(S) == CHOOSE x \in S : \A y \in S : y <= x

None == [none |-> TRUE]

(* get_daily_stats for the scan order `visited` of the rows of the date.   *)
daily_stats(visited) ==
    LET czk == [i \in 1..Len(visited) |-> visited[i].price_czk]
        count == Len(visited)
    IN IF count > 0
       THEN [min |-> SetMin({czk[i] : i \in 1..count}),
             max |-> SetMax({czk[i] : i \in 1..count}),
             avg |-> RealDivInt(RealSum(czk, 1, 0), count),
             count |-> count,
             eur_czk_rate |-> SetMax({visited[i].eur_czk_rate : i \in 1..count})]
       ELSE None

(* The values get_daily_stats may return: SQL leaves the order in which    *)
(* an aggregate visits its rows open.                                      *)
get_daily_stats(table, report_date) ==
    {daily_stats(v) : v \in Enumerations(RowsOfDate(init_db(table), report_date))}

(* report_date >= ? AND report_date < ? *)
InRangeExclusive(table, start_date, end_date) ==
    {r \in table : /\ TextLeq(DateIso(start_date), r.report_date)
                   /\ TextLess(r.report_date, DateIso(end_date))}

InRange(table, start_date, end_date) ==
    {r \in table : /\ TextLeq(DateIso(start_date), r.report_date)
                   /\ TextLeq(r.report_date, DateIso(end_date))}

get_prices_for_range(table, start_date, end_date) ==
    LET fetched == OrderByTimeFrom(InRange(init_db(table), start_date, end_date))
    IN [i \in 1..Len(fetched) |-> SpotPriceOfRow(fetched[i])]

(* SELECT COUNT(report_date) *)
get_data_days_count_all(table) == Cardinality(init_db(table))

(* SELECT COUNT(DISTINCT report_date) *)
get_data_days_count(table) == Cardinality({r.report_date : r \in init_db(table)})

(***************************************************************************)
(* Aggregates by hour and by weekday.                                      *)
(***************************************************************************)
(* The elements of a set of integers, ascending. *)
SortedSeq(S) ==
    [i \in 1..Cardinality(S) |->
        CHOOSE x \in S : Cardinality({y \in S : y < x}) = i - 1]

(* CAST(strftime('%H', time_from) AS INTEGER) *)
HourOf(text) == 10 * text[4] + text[5]

(* CAST(strftime('%w', time_from) AS INTEGER): 0 = Sunday.  Day 1 of the   *)
(* ordinal calendar is a Monday.                                           *)
WeekdaySunOf(text) == DateFromIso(SubSeq(text, 1, 3)) % 7

(* date.weekday(): 0 = Monday *)
weekday(d) == (d + 6) % 7

(* report_date >= date('now', '-N days') *)
InWindow(table, days_back) ==
    {r \in table : TextLeq(DateIso(Today - days_back), r.report_date)}

(* The order in which an aggregate visits the rows of a group: that of the *)
(* index on report_date, rows of one date by time_from.                    *)
ScanBefore(r, s) ==
    \/ TextLess(r.report_date, s.report_date)
    \/ r.report_date = s.report_date /\ TextLess(r.time_from, s.time_from)

Scan(S) ==
    [i \in 1..Cardinality(S) |->
        CHOOSE r \in S : Cardinality({s \in S : ScanBefore(s, r)}) = i - 1]

(* AVG(price_czk) over the rows of a group *)
AvgCzk(group) ==
    LET visited == Scan(group)
    IN RealDivInt(RealSum([i \in 1..Len(visited) |-> visited[i].price_czk], 1, 0),
                  Len(visited))

get_hourly_aggregates(table, days_back) ==
    LET window == InWindow(init_db(table), days_back)
        hours == SortedSeq({HourOf(r.time_from) : r \in window})
        Group(h) == {r \in window : HourOf(r.time_from) = h}
    IN [i \in 1..Len(hours) |->
           [hour |-> hours[i],
            avg_price |-> AvgCzk(Group(hours[i])),
            min_price |-> SetMin({r.price_czk : r \in Group(hours[i])}),
            max_price |-> SetMax({r.price_czk : r \in Group(hours[i])}),
            count |-> Cardinality(Group(hours[i]))]]

(* The aggregates with the weekday as the store numbers it, 0 = Sunday. *)
get_weekday_aggregates_from_sunday(table, days_back) ==
    LET window == InWindow(init_db(table), days_back)
        Key(r) == 24 * WeekdaySunOf(r.time_from) + HourOf(r.time_from)
        keys == SortedSeq({Key(r) : r \in window})
        Group(k) == {r \in window : Key(r) = k}
    IN [i \in 1..Len(keys) |->
           [weekday |-> keys[i] \div 24,
            hour |-> keys[i] % 24,
            avg_price |-> AvgCzk(Group(keys[i])),
            count |-> Cardinality(Group(keys[i]))]]

(* Groups are keyed 24 * weekday_sun + hour, which orders them by          *)
(* weekday_sun, hour.                                                      *)
get_weekday_aggregates(table, days_back) ==
    LET window == InWindow(init_db(table), days_back)
        Key(r) == 24 * WeekdaySunOf(r.time_from) + HourOf(r.time_from)
        keys == SortedSeq({Key(r) : r \in window})
        Group(k) == {r \in window : Key(r) = k}
    IN [i \in 1..Len(keys) |->
           [weekday |-> ((keys[i] \div 24) - 1) % 7,
            hour |-> keys[i] % 24,
            avg_price |-> AvgCzk(Group(keys[i])),
            count |-> Cardinality(Group(keys[i]))]]

(***************************************************************************)
(* Forecasts (forecast.py).                                                *)
(***************************************************************************)
MIN_DAYS_HOURLY == 7
MIN_DAYS_STATISTICAL == 14
HOURS == 24

(* Thresholds that the stored days must exceed. *)
get_data_sufficiency_strict(table) ==
    LET total_days == get_data_days_count(table)
    IN [total_days |-> total_days,
        can_show_tomorrow |-> TRUE,
        can_show_hourly_patterns |-> total_days > MIN_DAYS_HOURLY,
        can_show_weekly_patterns |-> total_days > MIN_DAYS_STATISTICAL,
        can_show_statistical_forecast |-> total_days > MIN_DAYS_STATISTICAL]

get_data_sufficiency(table) ==
    LET total_days == get_data_days_count(table)
    IN [total_days |-> total_days,
        can_show_tomorrow |-> TRUE,
        can_show_hourly_patterns |-> total_days >= MIN_DAYS_HOURLY,
        can_show_weekly_patterns |-> total_days >= MIN_DAYS_STATISTICAL,
        can_show_statistical_forecast |-> total_days >= MIN_DAYS_STATISTICAL]

(* The dict {agg["hour"]: agg for agg in aggs}: a later entry of an hour   *)
(* replaces an earlier one.                                                *)
ByHour(aggs) ==
    [h \in {aggs[i].hour : i \in 1..Len(aggs)} |->
        aggs[CHOOSE i \in 1..Len(aggs) :
                 /\ aggs[i].hour = h
                 /\ \A j \in (i + 1)..Len(aggs) : aggs[j].hour # h]]

PriceForecast(target_date, hour, quarter, price, low, high, method) ==
    [time_from |-> DateTime(target_date, hour, 15 * quarter, 0),
     time_to |-> DateTime(target_date, hour, 15 * quarter + 14, 59),
     price_czk |-> price,
     confidence_low |-> low,
     confidence_high |-> high,
     method |-> method]

(* The four quarter-hour forecasts of one hour. *)
Quarters(target_date, hour, price, low, high, method) ==
    [q \in 1..4 |-> PriceForecast(target_date, hour, q - 1, price, low, high, method)]

(* for hour in range(hours): the hours without data are skipped, each      *)
(* other hour appends its four quarter-hours.                              *)
PatternHours(hourly_data, target_date, hours) ==
    LET present == SortedSeq({hour \in 0..(hours - 1) : hour \in DOMAIN hourly_data})
        OfHour(hour) ==
            Quarters(target_date, hour, hourly_data[hour].avg_price,
                     hourly_data[hour].min_price, hourly_data[hour].max_price,
                     "hodinový vzorec")
    IN [i \in 1..(4 * Len(present)) |->
           OfHour(present[((i - 1) \div 4) + 1])[((i - 1) % 4) + 1]]

forecast_pattern_based(table, target_date, hours) ==
    PatternHours(ByHour(get_hourly_aggregates(table, 30)), target_date, hours)

(* The 95% interval around avg_price from the prices of the hour. *)
Confidence(data, prices_for_hour) ==
    IF Len(prices_for_hour) >= 2
    THEN LET n == Len(prices_for_hour)
             mean == RealDivInt(RealSum(prices_for_hour, 1, 0), n)
             squares == [i \in 1..n |->
                            RealMul(RealSub(prices_for_hour[i], mean),
                                    RealSub(prices_for_hour[i], mean))]
             variance == RealDivInt(RealSum(squares, 1, 0), n)
             std_dev == RealSqrt(variance)
             spread == RealMul(RealLit(196, 100), std_dev)
             low == RealSub(data.avg_price, spread)
         IN [low |-> IF 0 >= low THEN 0 ELSE low,
             high |-> RealAdd(data.avg_price, spread)]
    ELSE [low |-> IF "min_price" \in DOMAIN data THEN data.min_price
                  ELSE RealMul(data.avg_price, RealLit(8, 10)),
          high |-> IF "max_price" \in DOMAIN data THEN data.max_price
                   ELSE RealMul(data.avg_price, RealLit(12, 10))]

(* for hour in range(hours): the weekday's aggregate of the hour, else the *)
(* hourly aggregate, else the hour is skipped.                             *)
StatisticalHours(weekday_data, hourly_fallback, historical, target_date, hours) ==
    LET present == SortedSeq({hour \in 0..(hours - 1) :
                                 hour \in DOMAIN weekday_data \cup DOMAIN hourly_fallback})
        OfHour(hour) ==
            LET data == IF hour \in DOMAIN weekday_data
                        THEN weekday_data[hour] ELSE hourly_fallback[hour]
                of_hour == SelectSeq(historical, LAMBDA p : p.time_from.hour = hour)
                ci == Confidence(data, [i \in 1..Len(of_hour) |-> of_hour[i].price_czk])
            IN Quarters(target_date, hour, data.avg_price, ci.low, ci.high, "statistická")
    IN [i \in 1..(4 * Len(present)) |->
           OfHour(present[((i - 1) \div 4) + 1])[((i - 1) % 4) + 1]]

forecast_statistical(table, target_date, hours) ==
    LET weekday_aggregates == get_weekday_aggregates(table, 60)
        of_weekday == SelectSeq(weekday_aggregates,
                                LAMBDA agg : agg.weekday = weekday(target_date))
    IN StatisticalHours(ByHour(of_weekday),
                        ByHour(get_hourly_aggregates(table, 30)),
                        get_prices_for_range(table, Today - 30, Today),
                        target_date, hours)

(* The hourly pattern preferred whenever it is available. *)
ForecastOfDayPatternFirst(table, sufficiency, target_date) ==
    IF sufficiency.can_show_hourly_patterns
    THEN forecast_pattern_based(table, target_date, HOURS)
    ELSE IF sufficiency.can_show_statistical_forecast
    THEN forecast_statistical(table, target_date, HOURS)
    ELSE <<>>

(* The forecasts of one target day, by the method the stored data allows. *)
ForecastOfDay(table, sufficiency, target_date) ==
    IF sufficiency.can_show_statistical_forecast
    THEN forecast_statistical(table, target_date, HOURS)
    ELSE IF sufficiency.can_show_hourly_patterns
    THEN forecast_pattern_based(table, target_date, HOURS)
    ELSE <<>>

(* The days from tomorrow on: range(1, days_ahead + 1). *)
get_forecast_for_days_from_tomorrow(table, days_ahead) ==
    LET sufficiency == get_data_sufficiency(table)
        targets == {Today + day_offset : day_offset \in 1..days_ahead}
        forecasts == {<<t, ForecastOfDay(table, sufficiency, t)>> : t \in targets}
        result == {day \in forecasts : day[2] # <<>>}
    IN [t \in {day[1] : day \in result} |-> (CHOOSE day \in result : day[1] = t)[2]]

get_forecast_for_days(table, days_ahead) ==
    LET sufficiency == get_data_sufficiency(table)
        targets == {Today + day_offset : day_offset \in 2..days_ahead}
        forecasts == {<<t, ForecastOfDay(table, sufficiency, t)>> : t \in targets}
        result == {day \in forecasts : day[2] # <<>>}
    IN [t \in {day[1] : day \in result} |-> (CHOOSE day \in result : day[1] = t)[2]]

(***************************************************************************)
(* Analysis of the stored prices (analysis.py).                            *)
(***************************************************************************)
(* The least power of two that is at least K. *)
CeilPow2(K) == CHOOSE p \in {Pow2(e) : e \in 0..20} : p >= K /\ (p = 1 \/ p < 2 * K)

(* int(mult * x) for the double x nearest to num/den (0 < num < den) and   *)
(* an integer mult, computed in IEEE 754 binary64.  x = m / 2^(53+k) with  *)
(* 2^-(k+1) <= num/den < 2^-k and den * m = num * 2^(53+k) - r.  The       *)
(* product is mult*num/den - mult*r/(den * 2^(53+k)); when mult*num/den is *)
(* an integer K and r > 0 it rounds to K only if the shortfall is at most  *)
(* half a unit in the last place below K, and is truncated to K - 1        *)
(* otherwise.                                                              *)
IntOfProduct(mult, num, den) ==
    LET k == CHOOSE j \in 0..20 : num * Pow2(j + 1) >= den /\ num * Pow2(j) < den
        p26 == Pow2(26) % den
        rem == (num * ((p26 * p26 * 2 * Pow2(k)) % den)) % den
        r == IF 2 * rem < den THEN rem ELSE rem - den
        K == (mult * num) \div den
    IN IF (mult * num) % den # 0 \/ r <= 0 THEN K
       ELSE IF 2 * mult * r <= den * CeilPow2(K) * Pow2(k) THEN K
       ELSE K - 1

(* sorted(xs): ascending, equal values in their order in xs. *)
Sorted(xs) ==
    LET ranked == {<<Cardinality({j \in 1..Len(xs) :
                                     xs[j] < xs[i] \/ (xs[j] = xs[i] /\ j < i)}), i>> :
                      i \in 1..Len(xs)}
    IN [i \in 1..Len(xs) |-> xs[(CHOOSE p \in ranked : p[1] = i - 1)[2]]]

(* The index counted from the highest price down. *)
PercentileFromTop(sorted_prices, num, den) ==
    sorted_prices[Len(sorted_prices) - IntOfProduct(Len(sorted_prices), num, den)]

(* sorted_prices[int(n * q)] for the literal q = num/den *)
Percentile(sorted_prices, num, den) ==
    sorted_prices[IntOfProduct(Len(sorted_prices), num, den) + 1]

(* sorted([p.price_czk for p in get_prices_for_range(start, today)]) *)
SortedPrices(table, days_back) ==
    LET prices == get_prices_for_range(table, Today - days_back, Today)
    IN Sorted([i \in 1..Len(prices) |-> prices[i].price_czk])

(* AVG, MIN, MAX and COUNT of the rows from days_back days ago on. *)
get_overall_stats(table, days_back) ==
    LET window == InWindow(init_db(table), days_back)
    IN IF window = {} THEN None
       ELSE [avg |-> AvgCzk(window),
             min |-> SetMin({r.price_czk : r \in window}),
             max |-> SetMax({r.price_czk : r \in window}),
             count |-> Cardinality(window)]

classify_price(table, price, days_back) ==
    LET stats == get_overall_stats(table, days_back)
        sorted_prices == SortedPrices(table, days_back)
    IN IF stats = None THEN "nedostatek dat"
       ELSE IF stats.count < 10 THEN "nedostatek dat"
       ELSE IF Len(sorted_prices) < 10 THEN "nedostatek dat"
       ELSE IF price <= Percentile(sorted_prices, 1, 10) THEN "velmi levná"
       ELSE IF price <= Percentile(sorted_prices, 3, 10) THEN "levná"
       ELSE IF price <= Percentile(sorted_prices, 7, 10) THEN "normální"
       ELSE IF price <= Percentile(sorted_prices, 9, 10) THEN "drahá"
       ELSE "velmi drahá"

(* a / b for REALs a and b # 0 *)
RealDiv(a, b) == IF b > 0 THEN RoundReal(a * One, b) ELSE RoundReal(-(a * One), -b)

(* One DailyAverage for each report_date from days_back days ago on,       *)
(* ORDER BY report_date.                                                   *)
get_daily_averages(table, days_back) ==
    LET window == InWindow(init_db(table), days_back)
        dates == {r.report_date : r \in window}
        ranked == {<<Cardinality({e \in dates : TextLess(e, d)}), d>> : d \in dates}
        Group(d) == {r \in window : r.report_date = d}
        Average(d) == [date |-> DateFromIso(d),
                       avg_price |-> AvgCzk(Group(d)),
                       min_price |-> SetMin({r.price_czk : r \in Group(d)}),
                       max_price |-> SetMax({r.price_czk : r \in Group(d)})]
    IN [i \in 1..Cardinality(dates) |-> Average((CHOOSE p \in ranked : p[1] = i - 1)[2])]

(* The outcome of a call that raises ZeroDivisionError. *)
ZeroDivisionError == [raised |-> "ZeroDivisionError"]

(* sum(xs) / len(xs), len(xs) > 0 *)
Mean(xs) == RealDivInt(RealSum(xs, 1, 0), Len(xs))

(* ((current_price - reference) / reference) * 100, None for reference 0 *)
PercentChange(current_price, reference) ==
    IF reference = 0 THEN None
    ELSE RealMul(RealDiv(RealSub(current_price, reference), reference), 100 * One)

(* int((below_count / n) * 100) *)
PercentileRank(below_count, n) ==
    IF below_count = 0 THEN 0
    ELSE IF below_count = n THEN 100
    ELSE IntOfProduct(100, below_count, n)

get_current_benchmark(table, current_price, days_back) ==
    LET all_prices == SortedPrices(table, days_back)
        n == Len(all_prices)
        below_count == Cardinality({i \in 1..n : all_prices[i] < current_price})
        percentile_rank == PercentileRank(below_count, n)
        daily_avgs == get_daily_averages(table, days_back)
        days == Len(daily_avgs)
        avgs == [i \in 1..days |-> daily_avgs[i].avg_price]
        last_7 == IF days >= 7 THEN SubSeq(avgs, days - 6, days) ELSE avgs
    IN IF n < 10
       THEN [current_price |-> current_price, avg_7d |-> 0, avg_30d |-> 0,
             percentile_rank |-> 50, vs_yesterday_pct |-> None,
             vs_last_week_pct |-> None, classification |-> "nedostatek dat"]
       ELSE [current_price |-> current_price,
             avg_7d |-> IF days = 0 THEN 0 ELSE Mean(last_7),
             avg_30d |-> IF days = 0 THEN 0 ELSE Mean(avgs),
             percentile_rank |-> percentile_rank,
             vs_yesterday_pct |->
                 IF days >= 1 THEN PercentChange(current_price, avgs[days]) ELSE None,
             vs_last_week_pct |->
                 IF days >= 8 THEN PercentChange(current_price, avgs[days - 7]) ELSE None,
             classification |->
                 IF percentile_rank <= 10 THEN "velmi levná"
                 ELSE IF percentile_rank <= 30 THEN "levná"
                 ELSE IF percentile_rank <= 70 THEN "normální"
                 ELSE IF percentile_rank <= 90 THEN "drahá"
                 ELSE "velmi drahá"]

(***************************************************************************)
(* Price peaks (analysis.py).                                              *)
(***************************************************************************)
(* The population standard deviation of xs (Len(xs) >= 1):                 *)
(* (sum((p - mean) ** 2 for p in xs) / len(xs)) ** 0.5                     *)
StdDev(xs) ==
    LET mean == Mean(xs)
        squares == [i \in 1..Len(xs) |->
                       RealMul(RealSub(xs[i], mean), RealSub(xs[i], mean))]
    IN RealSqrt(Mean(squares))

(* The prices at or above threshold_p90, by hour. *)
PeaksAbove(prices, threshold_p90) ==
    LET peaks == SelectSeq(prices, LAMBDA p : p.price_czk >= threshold_p90)
        peak_prices == [i \in 1..Len(peaks) |-> peaks[i].price_czk]
        hours == {peaks[i].time_from.hour : i \in 1..Len(peaks)}
        Count(h) == Cardinality({i \in 1..Len(peaks) : peaks[i].time_from.hour = h})
        First(h) == CHOOSE i \in 1..Len(peaks) :
                        /\ peaks[i].time_from.hour = h
                        /\ \A j \in 1..(i - 1) : peaks[j].time_from.hour # h
        (* sorted(items, key=count, reverse=True): equal counts keep the   *)
        (* order in which the dict received its keys.                      *)
        Ahead(g, h) == Count(g) > Count(h) \/ (Count(g) = Count(h) /\ First(g) < First(h))
        ranked == {<<Cardinality({g \in hours : Ahead(g, h)}), h>> : h \in hours}
        top == IF Cardinality(hours) < 5 THEN Cardinality(hours) ELSE 5
    IN [threshold_p90 |-> threshold_p90,
        total_peaks_30d |-> Len(peak_prices),
        peak_hours_distribution |-> [h \in hours |-> Count(h)],
        most_risky_hours |-> [i \in 1..top |-> (CHOOSE p \in ranked : p[1] = i - 1)[2]],
        avg_peak_price |-> IF Len(peak_prices) = 0 THEN 0 ELSE Mean(peak_prices),
        max_peak_price |->
            IF Len(peak_prices) = 0 THEN 0
            ELSE SetMax({peak_prices[i] : i \in 1..Len(peak_prices)})]

get_peak_analysis(table, days_back) ==
    LET prices == get_prices_for_range(table, Today - days_back, Today)
    IN IF Len(prices) < 20
       THEN [threshold_p90 |-> 0, total_peaks_30d |-> 0,
             peak_hours_distribution |-> <<>>, most_risky_hours |-> <<>>,
             avg_peak_price |-> 0, max_peak_price |-> 0]
       ELSE PeaksAbove(prices,
                       Percentile(Sorted([i \in 1..Len(prices) |-> prices[i].price_czk]),
                                  9, 10))

(* The risk level "střední", in the letters that a string can hold. *)
STREDNI == "stredni"

(* min(1.0, count / days_back), days_back > 0.  The double is held as the  *)
(* fraction in lowest terms that it is nearest to: for counts and          *)
(* days_back below 2^26 two such doubles are equal, or ordered, or at      *)
(* least the double 0.5 or 0.2, exactly when the fractions are.            *)
Probability(count, days_back) ==
    IF count >= days_back THEN <<1, 1>>
    ELSE LET g == SetMax({d \in 1..days_back : count % d = 0 /\ days_back % d = 0})
         IN <<count \div g, days_back \div g>>

(* prob >= num/den for the literal num/den *)
ProbAtLeast(prob, num, den) == prob[1] * den >= num * prob[2]

(* {h: 0.0 for h in range(24)} without peaks, else the count of each hour  *)
(* over days_back, which raises for days_back = 0.                         *)
ProbabilityByHour(distribution, days_back) ==
    IF DOMAIN distribution = {} THEN [hour \in 0..(HOURS - 1) |-> <<0, 1>>]
    ELSE IF days_back = 0 THEN ZeroDivisionError
    ELSE [hour \in 0..(HOURS - 1) |->
             Probability(IF hour \in DOMAIN distribution THEN distribution[hour] ELSE 0,
                         days_back)]

(* The probabilities normalised by the 30 days of the default window      *)
(* whatever days_back is.                                                  *)
get_peak_probability_by_hour_of_30_days(table, days_back) ==
    ProbabilityByHour(get_peak_analysis(table, days_back).peak_hours_distribution, 30)

get_peak_probability_by_hour(table, days_back) ==
    ProbabilityByHour(get_peak_analysis(table, days_back).peak_hours_distribution, days_back)

(* for hour in range(24): the weekday's aggregate of the hour, else the    *)
(* hourly aggregate, else the hour is skipped.                             *)
PeakPredictions(weekday_data, hourly_fallback, prices, probabilities, distribution) ==
    LET present == SortedSeq({hour \in 0..(HOURS - 1) :
                                 hour \in DOMAIN weekday_data \cup DOMAIN hourly_fallback})
        OfHour(hour) ==
            LET data == IF hour \in DOMAIN weekday_data
                        THEN weekday_data[hour] ELSE hourly_fallback[hour]
                expected_price == data.avg_price
                prob == probabilities[hour]
                of_hour == SelectSeq(prices, LAMBDA p : p.time_from.hour = hour)
                prices_for_hour == [i \in 1..Len(of_hour) |-> of_hour[i].price_czk]
                spread == RealMul(RealLit(196, 100), StdDev(prices_for_hour))
                low == RealSub(expected_price, spread)
            IN [hour |-> hour,
                probability |-> prob,
                expected_price |-> expected_price,
                confidence_low |->
                    IF Len(prices_for_hour) >= 2 THEN (IF low > 0 THEN low ELSE 0)
                    ELSE RealMul(expected_price, RealLit(7, 10)),
                confidence_high |->
                    IF Len(prices_for_hour) >= 2 THEN RealAdd(expected_price, spread)
                    ELSE RealMul(expected_price, RealLit(13, 10)),
                historical_peak_count |->
                    IF hour \in DOMAIN distribution THEN distribution[hour] ELSE 0,
                risk_level |-> IF ProbAtLeast(prob, 5, 10) THEN "vysoké"
                               ELSE IF ProbAtLeast(prob, 2, 10) THEN STREDNI
                               ELSE "nízké"]
    IN [i \in 1..Len(present) |-> OfHour(present[i])]

predict_peaks_tomorrow(table, days_back) ==
    PeakPredictions(
        ByHour(SelectSeq(get_weekday_aggregates(table, days_back * 2),
                         LAMBDA agg : agg.weekday = weekday(Today + 1))),
        ByHour(get_hourly_aggregates(table, days_back)),
        get_prices_for_range(table, Today - days_back, Today),
        get_peak_probability_by_hour(table, days_back),
        get_peak_analysis(table, days_back).peak_hours_distribution)

is_price_peak(table, current_price, days_back) ==
    current_price >= get_peak_analysis(table, days_back).threshold_p90

(***************************************************************************)
(* Distribution and volatility (analysis.py).                              *)
(***************************************************************************)
(* f"{x:.0f}": the integer nearest to the REAL x, ties to even. *)
Format0(x) == RoundInt(x, One)

get_price_distribution(table, days_back) ==
    LET price_values == SortedPrices(table, days_back)
        n == Len(price_values)
        min_price == price_values[1]
        max_price == price_values[n]
        num_bins == 20
        bin_width == IF max_price > min_price
                     THEN RealDivInt(RealSub(max_price, min_price), num_bins)
                     ELSE One
        bin_start(i) == RealAdd(min_price, RoundReal(i * bin_width, 1))
        bin_end(i) == RealAdd(bin_start(i), bin_width)
        InBin(i) == Cardinality({j \in 1..n :
                                    bin_start(i) <= price_values[j] /\ price_values[j] < bin_end(i)})
        AtMax == Cardinality({j \in 1..n : price_values[j] = max_price})
    IN IF n < 10 THEN [bins |-> <<>>, counts |-> <<>>, percentiles |-> <<>>]
       ELSE [bins |-> [i \in 1..num_bins |->
                          <<Format0(bin_start(i - 1)), Format0(bin_end(i - 1))>>],
             counts |-> [i \in 1..num_bins |->
                            IF i < num_bins THEN InBin(i - 1) ELSE InBin(i - 1) + AtMax],
             percentiles |-> [p10 |-> Percentile(price_values, 1, 10),
                              p25 |-> Percentile(price_values, 1, 4),
                              p50 |-> Percentile(price_values, 1, 2),
                              p75 |-> Percentile(price_values, 3, 4),
                              p90 |-> Percentile(price_values, 9, 10)]]

get_volatility_metrics(table, days_back) ==
    LET daily_avgs == get_daily_averages(table, days_back)
        days == Len(daily_avgs)
        daily_prices == [i \in 1..days |-> daily_avgs[i].avg_price]
        daily_swings == [i \in 1..days |->
                            RealSub(daily_avgs[i].max_price, daily_avgs[i].min_price)]
        prices == get_prices_for_range(table, Today - days_back, Today)
        (* the prices of each time_from.date(), the dates in the order of  *)
        (* their first price                                               *)
        dates == SortedSeq({prices[i].time_from.date : i \in 1..Len(prices)})
        DayPrices(d) ==
            LET of_day == SelectSeq(prices, LAMBDA p : p.time_from.date = d)
            IN [i \in 1..Len(of_day) |-> of_day[i].price_czk]
        full == SelectSeq(dates, LAMBDA d : Len(DayPrices(d)) >= 2)
        intraday_stds == [i \in 1..Len(full) |-> StdDev(DayPrices(full[i]))]
        all_prices == Sorted([i \in 1..Len(prices) |-> prices[i].price_czk])
        n == Len(all_prices)
        mid == days \div 2
        first_half_vol == Mean(SubSeq(daily_swings, 1, mid))
        second_half_vol == Mean(SubSeq(daily_swings, mid + 1, days))
    IN IF days < 3
       THEN [daily_volatility |-> 0, intraday_volatility |-> 0, max_daily_swing |-> 0,
             avg_daily_swing |-> 0, var_95 |-> 0, var_99 |-> 0,
             volatility_trend |-> "nedostatek dat"]
       ELSE [daily_volatility |-> StdDev(daily_prices),
             intraday_volatility |-> IF Len(full) = 0 THEN 0 ELSE Mean(intraday_stds),
             max_daily_swing |-> SetMax({daily_swings[i] : i \in 1..days}),
             avg_daily_swing |-> Mean(daily_swings),
             var_95 |-> IF n >= 20 THEN Percentile(all_prices, 19, 20)
                        ELSE IF n = 0 THEN 0 ELSE all_prices[n],
             var_99 |-> IF n >= 20 THEN Percentile(all_prices, 99, 100)
                        ELSE IF n = 0 THEN 0 ELSE all_prices[n],
             volatility_trend |->
                 IF mid < 3 THEN "nedostatek dat"
                 ELSE IF second_half_vol > RealMul(first_half_vol, RealLit(11, 10))
                 THEN "rostoucí"
                 ELSE IF second_half_vol < RealMul(first_half_vol, RealLit(9, 10))
                 THEN "klesající"
                 ELSE "stabilní"]

(***************************************************************************)
(* Negative prices (db.py, analysis.py).                                   *)
(***************************************************************************)
(* One NegativePriceHour for each (report_date, hour) that has a price_czk *)
(* <= 0 from days_back days ago on, with the lowest such price, ORDER BY   *)
(* report_date DESC, hour.                                                 *)
get_negative_price_hours(table, days_back) ==
    LET negative == {r \in InWindow(init_db(table), days_back) : r.price_czk <= 0}
        groups == {<<r.report_date, HourOf(r.time_from)>> : r \in negative}
        Before(a, b) == TextLess(b[1], a[1]) \/ (a[1] = b[1] /\ a[2] < b[2])
        ranked == {<<Cardinality({a \in groups : Before(a, g)}), g>> : g \in groups}
        Hour(g) == [date |-> DateFromIso(g[1]),
                    hour |-> g[2],
                    price_czk |-> SetMin({r.price_czk : r \in
                                    {s \in negative : /\ s.report_date = g[1]
                                                      /\ HourOf(s.time_from) = g[2]}})]
    IN [i \in 1..Cardinality(groups) |-> Hour((CHOOSE p \in ranked : p[1] = i - 1)[2])]

(* The dict hours_distribution is held as the function of its keys and,   *)
(* in hours, the order in which the keys were first set.                   *)
get_negative_price_stats(table, days_back) ==
    LET negative_hours == get_negative_price_hours(table, days_back)
        prices == [i \in 1..Len(negative_hours) |-> negative_hours[i].price_czk]
        first == SortedSeq({i \in 1..Len(negative_hours) :
                     \A j \in 1..(i - 1) : negative_hours[j].hour # negative_hours[i].hour})
        keys == [k \in 1..Len(first) |-> negative_hours[first[k]].hour]
    IN IF Len(negative_hours) = 0
       THEN [count |-> 0, avg_negative_price |-> None, min_price |-> None,
             hours_distribution |-> <<>>, hours |-> <<>>]
       ELSE [count |-> Len(negative_hours),
             avg_negative_price |-> Mean(prices),
             min_price |-> SetMin({prices[i] : i \in 1..Len(prices)}),
             hours_distribution |->
                 [h \in {keys[k] : k \in 1..Len(keys)} |->
                     Cardinality({i \in 1..Len(negative_hours) : negative_hours[i].hour = h})],
             hours |-> keys]

(* The hours with three entries or more, in the order of the dict. *)
get_negative_price_forecast_unsorted(table) ==
    LET stats == get_negative_price_stats(table, 30)
    IN SelectSeq(stats.hours, LAMBDA hour : stats.hours_distribution[hour] >= 3)

get_negative_price_forecast(table) ==
    LET stats == get_negative_price_stats(table, 30)
        risky_hours == SelectSeq(stats.hours,
                                 LAMBDA hour : stats.hours_distribution[hour] >= 3)
    IN Sorted(risky_hours)

(***************************************************************************)
(* Trend and consumption profiles.                                         *)
(***************************************************************************)
PriceTrend(direction, change_percent, current_avg, previous_avg) ==
    [direction |-> direction, change_percent |-> change_percent,
     current_avg |-> current_avg, previous_avg |-> previous_avg]

(* xs[-k:] for k >= 0; -0 is 0, so xs[-0:] is the whole of xs. *)
LastOf(xs, k) ==
    IF k = 0 \/ k >= Len(xs) THEN xs ELSE SubSeq(xs, Len(xs) - k + 1, Len(xs))

(* xs[:-k] for k >= 0; xs[:-0] is xs[:0], the empty list. *)
AllButLastOf(xs, k) ==
    IF k = 0 \/ k >= Len(xs) THEN <<>> ELSE SubSeq(xs, 1, Len(xs) - k)

(* xs[-2k:-k] for len(xs) >= 2k; xs[-0:-0] is xs[0:0], the empty list. *)
BeforeLastOf(xs, k) == SubSeq(xs, Len(xs) - 2 * k + 1, Len(xs) - k)

(* sum(d.avg_price for d in period) / len(period), len(period) > 0 *)
PeriodAvg(period) == Mean([i \in 1..Len(period) |-> period[i].avg_price])

(* The change and the direction of two averages. *)
TrendOf(current_avg, previous_avg) ==
    LET change_percent ==
            IF previous_avg = 0 THEN 0
            ELSE RealMul(RealDiv(RealSub(current_avg, previous_avg), previous_avg),
                         100 * One)
        direction == IF change_percent > 5 * One THEN "rostoucí"
                     ELSE IF change_percent < -(5 * One) THEN "klesající"
                     ELSE "stabilní"
    IN PriceTrend(direction, change_percent, current_avg, previous_avg)

(* The trend read from the daily averages of the last 2 * days_back days.  *)
(* The average of the current period and, with 2 * days_back averages or   *)
(* more, that of the previous period are divided by the length of the      *)
(* period without a test of it.                                            *)
TrendOfAverages(daily_avgs, days_back) ==
    IF Len(daily_avgs) < days_back
    THEN PriceTrend("nedostatek dat", None, None, None)
    ELSE IF LastOf(daily_avgs, days_back) = <<>>
    THEN ZeroDivisionError
    ELSE IF Len(daily_avgs) >= days_back * 2
    THEN IF BeforeLastOf(daily_avgs, days_back) = <<>>
         THEN ZeroDivisionError
         ELSE TrendOf(PeriodAvg(LastOf(daily_avgs, days_back)),
                      PeriodAvg(BeforeLastOf(daily_avgs, days_back)))
    ELSE IF AllButLastOf(daily_avgs, days_back) = <<>>
    THEN PriceTrend("nedostatek dat", None,
                    PeriodAvg(LastOf(daily_avgs, days_back)), None)
    ELSE TrendOf(PeriodAvg(LastOf(daily_avgs, days_back)),
                 PeriodAvg(AllButLastOf(daily_avgs, days_back)))

get_price_trend(table, days_back) ==
    TrendOfAverages(get_daily_averages(table, days_back * 2), days_back)

(* The profiles in the order of the dict.  The names "ranní", "večerní",   *)
(* "noční" and "víkendový" are written in the letters that a string can    *)
(* hold; the description of a profile, which no computation reads, is left *)
(* out.                                                                    *)
CONSUMPTION_PROFILES ==
    <<[name |-> "ranni", hours |-> <<5, 6, 7, 8>>],
      [name |-> "home_office", hours |-> <<8, 9, 10, 11, 12, 13, 14, 15, 16>>],
      [name |-> "vecerni", hours |-> <<17, 18, 19, 20, 21, 22>>],
      [name |-> "nocni", hours |-> <<22, 23, 0, 1, 2, 3, 4, 5>>],
      [name |-> "vikendovy", hours |-> <<8, 9, 10, 11, 12, 13, 14, 15, 16, 17, 18>>]>>

(* ["Po", "Út", "St", "Čt", "Pá", "So", "Ne"] *)
weekday_names == <<"Po", "Ut", "St", "Ct", "Pa", "So", "Ne">>

(* weekday_avgs: for each weekday with an aggregate of one of the hours,   *)
(* the mean of the averages of its aggregates of these hours.              *)
WeekdayAvgs(hours, weekday_aggregates) ==
    LET OfDay(wd) == SelectSeq(weekday_aggregates,
                               LAMBDA agg : agg.hour \in hours /\ agg.weekday = wd)
    IN [wd \in {w \in 0..6 : OfDay(w) # <<>>} |->
           Mean([i \in 1..Len(OfDay(wd)) |-> OfDay(wd)[i].avg_price])]

(* min(weekday_avgs, key=...) and max(weekday_avgs, key=...): the first    *)
(* weekday with the extreme average.                                       *)
BestDay(weekday_avgs) ==
    IF DOMAIN weekday_avgs = {} THEN "N/A"
    ELSE weekday_names[1 + CHOOSE wd \in DOMAIN weekday_avgs :
                               \A v \in DOMAIN weekday_avgs :
                                   /\ weekday_avgs[wd] <= weekday_avgs[v]
                                   /\ v < wd => weekday_avgs[v] # weekday_avgs[wd]]

WorstDay(weekday_avgs) ==
    IF DOMAIN weekday_avgs = {} THEN "N/A"
    ELSE weekday_names[1 + CHOOSE wd \in DOMAIN weekday_avgs :
                               \A v \in DOMAIN weekday_avgs :
                                   /\ weekday_avgs[wd] >= weekday_avgs[v]
                                   /\ v < wd => weekday_avgs[v] # weekday_avgs[wd]]

(* The ConsumptionProfile of the prices of the profile's hours. *)
ConsumptionProfile(profile_def, avg_price_czk, avg_price_eur, overall_stats, weekday_avgs) ==
    [name |-> profile_def.name,
     hours |-> profile_def.hours,
     avg_price_czk |-> avg_price_czk,
     avg_price_eur |-> avg_price_eur,
     savings_vs_flat_pct |->
         IF overall_stats = None THEN 0
         ELSE IF overall_stats.avg # 0
         THEN RealMul(RealDiv(RealSub(overall_stats.avg, avg_price_czk),
                              overall_stats.avg), 100 * One)
         ELSE 0,
     best_day |-> BestDay(weekday_avgs),
     worst_day |-> WorstDay(weekday_avgs)]

(* The profile of the prices of the window that fall in its hours. *)
ProfileOfPrices(table, profile_def, hours, prices, days_back) ==
    LET of_profile == SelectSeq(prices, LAMBDA p : p.time_from.hour \in hours)
    IN IF prices = <<>> THEN None
       ELSE IF of_profile = <<>> THEN None
       ELSE ConsumptionProfile(
                profile_def,
                Mean([i \in 1..Len(of_profile) |-> of_profile[i].price_czk]),
                Mean([i \in 1..Len(of_profile) |-> of_profile[i].price_eur]),
                get_overall_stats(table, days_back),
                WeekdayAvgs(hours, get_weekday_aggregates(table, days_back)))

analyze_consumption_profile(table, profile_name, days_back) ==
    IF \A i \in 1..Len(CONSUMPTION_PROFILES) : CONSUMPTION_PROFILES[i].name # profile_name
    THEN None
    ELSE LET profile_def == CONSUMPTION_PROFILES[
                 CHOOSE i \in 1..Len(CONSUMPTION_PROFILES) :
                     CONSUMPTION_PROFILES[i].name = profile_name]
         IN ProfileOfPrices(table, profile_def,
                            {profile_def.hours[i] : i \in 1..Len(profile_def.hours)},
                            get_prices_for_range(table, Today - days_back, Today),
                            days_back)

(* sorted(profiles, key=lambda p: p.avg_price_czk): profiles of one price  *)
(* keep their order.                                                       *)
SortedByAvgPrice(profiles) ==
    LET Ahead(j, i) == \/ profiles[j].avg_price_czk < profiles[i].avg_price_czk
                       \/ (profiles[j].avg_price_czk = profiles[i].avg_price_czk /\ j < i)
        ranked == {<<Cardinality({j \in 1..Len(profiles) : Ahead(j, i)}), i>> :
                      i \in 1..Len(profiles)}
    IN [i \in 1..Len(profiles) |-> profiles[(CHOOSE p \in ranked : p[1] = i - 1)[2]]]

(* The profiles that have a price, in the order of the dict. *)
AnalyzedProfiles(table, days_back) ==
    LET analyzed == [i \in 1..Len(CONSUMPTION_PROFILES) |->
                        analyze_consumption_profile(table, CONSUMPTION_PROFILES[i].name,
                                                    days_back)]
    IN SelectSeq(analyzed, LAMBDA profile : profile # None)

get_all_profiles_comparison_in_dict_order(table, days_back) ==
    AnalyzedProfiles(table, days_back)

get_all_profiles_comparison(table, days_back) ==
    SortedByAvgPrice(AnalyzedProfiles(table, days_back))

get_optimal_profile(table, days_back) ==
    LET profiles == get_all_profiles_comparison(table, days_back)
    IN IF profiles # <<>> THEN profiles[1].name ELSE None

(***************************************************************************)
(* Weather (weather.py).  A float of a WeatherData is <<v>> for the number *)
(* v and <<>> for NaN, which every comparison answers with False.          *)
(***************************************************************************)
NaN == <<>>

Float(v) == <<v>>

Lt(x, bound) == x # NaN /\ x[1] < bound

Gt(x, bound) == x # NaN /\ x[1] > bound

Ge(x, bound) == x # NaN /\ x[1] >= bound

(* WeatherData without its datetime, which no computation below reads. *)
WeatherData(temperature, cloud_cover, solar_radiation, wind_speed, precipitation) ==
    [temperature |-> temperature, cloud_cover |-> cloud_cover,
     solar_radiation |-> solar_radiation, wind_speed |-> wind_speed,
     precipitation |-> precipitation]

(* A factor is held in units of 1/100^4: the integer factor stands for     *)
(* factor/100^4.  factor *= percent/100 is exact for the first four        *)
(* multiplications of 1.0, and get_weather_adjustment_factor does at most  *)
(* four.  The binary64 products of the code differ from these by less than *)
(* 1e-15 and none of them is within 0.001 of 0.75, 1.0 or 1.25 unless all  *)
(* multipliers are absent.                                                 *)
FactorOne == 100 * 100 * 100 * 100

FactorTimes(factor, percent) == (factor \div 100) * percent

FactorOf(percent) == (FactorOne \div 100) * percent

SolarFactor(weather, factor) ==
    IF weather.cloud_cover < 30 /\ Gt(weather.solar_radiation, 300)
    THEN FactorTimes(factor, 85)
    ELSE IF weather.cloud_cover < 50 THEN FactorTimes(factor, 92) ELSE factor

WindFactor(weather, factor) ==
    IF Ge(weather.wind_speed, 10) THEN FactorTimes(factor, 88)
    ELSE IF Ge(weather.wind_speed, 8) THEN FactorTimes(factor, 92) ELSE factor

CalmFactor(weather, factor) ==
    IF weather.cloud_cover >= 80 /\ Lt(weather.wind_speed, 4)
    THEN FactorTimes(factor, 110) ELSE factor

TemperatureFactor(weather, factor) ==
    IF Lt(weather.temperature, -5) \/ Gt(weather.temperature, 30)
    THEN FactorTimes(factor, 105)
    ELSE IF Lt(weather.temperature, 0) \/ Gt(weather.temperature, 25)
         THEN FactorTimes(factor, 102) ELSE factor

get_weather_adjustment_factor_unlimited(weather) ==
    TemperatureFactor(weather,
        CalmFactor(weather, WindFactor(weather, SolarFactor(weather, FactorOne))))

get_weather_adjustment_factor(weather) ==
    LET factor == TemperatureFactor(weather,
                      CalmFactor(weather,
                          WindFactor(weather, SolarFactor(weather, FactorOne))))
        Min(a, b) == IF a < b THEN a ELSE b
        Max(a, b) == IF a > b THEN a ELSE b
    IN Max(FactorOf(75), Min(FactorOf(125), factor))

(* sum(xs[i] * ys[i]) accumulated from the int 0 *)
RECURSIVE SumOfProducts(_, _, _, _)
SumOfProducts(xs, ys, i, acc) ==
    IF i > Len(xs) THEN acc
    ELSE SumOfProducts(xs, ys, i + 1, RealAdd(acc, RealMul(xs[i], ys[i])))

(* Pearson's coefficient of x and y; 0.0 for lists of different lengths,   *)
(* for fewer than 3 values and for a denominator of 0.                     *)
calculate_correlation(x, y) ==
    IF Len(x) # Len(y) \/ Len(x) < 3 THEN 0
    ELSE LET n == Len(x)
             mean_x == RealDivInt(RealSum(x, 1, 0), n)
             mean_y == RealDivInt(RealSum(y, 1, 0), n)
             dx == [i \in 1..n |-> RealSub(x[i], mean_x)]
             dy == [i \in 1..n |-> RealSub(y[i], mean_y)]
             numerator == SumOfProducts(dx, dy, 1, 0)
             sum_sq_x == SumOfProducts(dx, dx, 1, 0)
             sum_sq_y == SumOfProducts(dy, dy, 1, 0)
             denominator == RealSqrt(RealMul(sum_sq_x, sum_sq_y))
         IN IF denominator = 0 THEN 0 ELSE RealDiv(numerator, denominator)

(***************************************************************************)
(* The sync command (cli.py).  The local database file is <<>> when it     *)
(* does not exist and <<table>> when it holds the table.                   *)
(***************************************************************************)
(* click.confirm(text) with the default No: True for the answer "y", False *)
(* for "n" and for an empty line; the end of the input raises Abort.       *)
confirm(answer) == answer = "y"

(* httpx.get raises RequestError when no response arrives. *)
RequestError == [raised |-> "RequestError"]

(* response.raise_for_status() raises HTTPStatusError. *)
RaisesForStatus(response) == response.status_code >= 400

(* What sync prints last, in the letters that a string can hold, whether   *)
(* it asked for a confirmation and whether it requested the download.      *)
SyncResult(file, out, asked, requested) ==
    [file |-> file, out |-> out, asked |-> asked, requested |-> requested]

(* httpx.get, raise_for_status, write_bytes, then get_available_dates on   *)
(* the file written.                                                       *)
Download(file, asked, download) ==
    IF download = RequestError
    THEN SyncResult(file, "Chyba pripojeni", asked, TRUE)
    ELSE IF RaisesForStatus(download)
    THEN SyncResult(file, "Chyba pri stahovani: HTTP", asked, TRUE)
    ELSE SyncResult(<<init_db(download.content)>>, "Databaze stazena", asked, TRUE)

(* sync without the question for an existing file. *)
sync_unasked(file, force, answer, download) == Download(file, FALSE, download)

sync(file, force, answer, download) ==
    IF file # <<>> /\ ~force
    THEN IF answer = "Abort" THEN SyncResult(file, "Chyba: ", TRUE, FALSE)
         ELSE IF ~confirm(answer) THEN SyncResult(file, "Zruseno.", TRUE, FALSE)
         ELSE Download(file, TRUE, download)
    ELSE Download(file, FALSE, download)

(***************************************************************************)
(* Inputs.                                                                 *)
(***************************************************************************)
ReportDates == (Today - NumDates + 1)..Today

(* Two quarter-hours whose order as text differs from the order of their   *)
(* unpadded fields; the first has two quotes that differ in every field.   *)
Quote(h, v) ==
    SpotPrice(DateTime(Today, h, 0, 0), DateTime(Today, h, 14 + 15 * v, 59),
              (2 + v) * One, (3 + 2 * v) * One)

SamplePrices == {Quote(9, 0), Quote(9, 1), Quote(10, 0)}

RECURSIVE SeqsUpTo(_, _)
SeqsUpTo(S, n) ==
    IF n = 0 THEN {<<>>}
    ELSE LET shorter == SeqsUpTo(S, n - 1)
         IN shorter \cup {Append(s, x) : s \in {t \in shorter : Len(t) = n - 1}, x \in S}

PriceLists == SeqsUpTo(SamplePrices, MaxLen)

Rates == {3 * One}

TimesFrom(prices) == {prices[i].time_from : i \in 1..Len(prices)}

Call(op, date, date2, prices) ==
    [op |-> op, date |-> date, date2 |-> date2, prices |-> prices, days_ahead |-> 0]

NoResave == -1

(***************************************************************************)
(* Operations.                                                             *)
(***************************************************************************)
Init ==
    /\ rows = {}
    /\ call = Call("init_db", 0, 0, <<>>)
    /\ ret = 0
    /\ fresh = FALSE
    /\ resaved = NoResave
    /\ savedDates = {}

SavePricesOf(lists) ==
    \E d \in DOMAIN lists, rate \in Rates : \E prices \in lists[d] :
        LET saved == save_prices(rows, d, prices, rate)
        IN /\ rows' = saved.table
           /\ call' = Call("save_prices", d, 0, prices)
           /\ ret' = saved.rowcount
           /\ fresh' = (RowsOfDate(rows, d) = {})
           /\ resaved' = IF /\ call.op = "save_prices"
                            /\ call.date = d
                            /\ TimesFrom(call.prices) = TimesFrom(prices)
                         THEN Len(get_prices_for_date(rows, d))
                         ELSE NoResave
           /\ savedDates' = IF prices = <<>> THEN savedDates ELSE savedDates \cup {d}

SavePrices == SavePricesOf([d \in ReportDates |-> PriceLists])

Query(c, result) ==
    /\ call' = c
    /\ ret' = result
    /\ fresh' = FALSE
    /\ resaved' = NoResave
    /\ rows' = init_db(rows)
    /\ UNCHANGED savedDates

GetPricesForDate ==
    \E d \in ReportDates :
        Query(Call("get_prices_for_date", d, 0, <<>>), get_prices_for_date(rows, d))

GetDailyStatsOf(dates) ==
    \E d \in dates :
        \E stats \in get_daily_stats(rows, d) :
            Query(Call("get_daily_stats", d, 0, <<>>), stats)

GetDailyStats == GetDailyStatsOf(ReportDates)

GetPricesForRange ==
    \E s \in ReportDates, e \in ReportDates :
        Query(Call("get_prices_for_range", s, e, <<>>), get_prices_for_range(rows, s, e))

GetDataDaysCount ==
    Query(Call("get_data_days_count", 0, 0, <<>>), get_data_days_count(rows))

Next ==
    \/ SavePrices
    \/ GetPricesForDate
    \/ GetDailyStats
    \/ GetPricesForRange
    \/ GetDataDaysCount

Spec == Init /\ [][Next]_vars

(***************************************************************************)
(* The store with three quarter-hours a day, saved one quote at a time,    *)
(* and its daily statistics.                                               *)
(***************************************************************************)
StatDates == {Today - 1, Today}

StatPrices == {Quote(9, 0), Quote(9, 1), Quote(10, 0), Quote(11, 0)}

StatLists == SeqsUpTo(StatPrices, 1)

SavePricesStat == SavePricesOf([d \in StatDates |-> StatLists])

GetDailyStatsStat == GetDailyStatsOf(StatDates)

NextStats ==
    \/ SavePricesStat
    \/ GetDailyStatsStat

SpecStats == Init /\ [][NextStats]_vars

(***************************************************************************)
(* The store with a history of whole days, and the forecasts made from it. *)
(***************************************************************************)
DayQuote(d, h, czk) ==
    SpotPrice(DateTime(d, h, 0, 0), DateTime(d, h, 14, 59), One, czk)

(* The quotes fetched for day d. *)
DayList(d) == <<DayQuote(d, 9, (3 + 2 * (d % 2)) * One), DayQuote(d, 10, 5 * One)>>

(* The store after the days Today - k .. Today - 1 were saved. *)
RECURSIVE History(_)
History(k) ==
    IF k = 0 THEN {}
    ELSE save_prices(History(k - 1), Today - k, DayList(Today - k), 3 * One).table

HistoryDays == 0..MIN_DAYS_STATISTICAL

ForecastSaveDates == {Today - MIN_DAYS_STATISTICAL - 1, Today}

ForecastLists(d) == {<<>>, SubSeq(DayList(d), 1, 1), DayList(d)}

InitForecast ==
    \E k \in HistoryDays :
        /\ rows = History(k)
        /\ call = Call("init_db", 0, 0, <<>>)
        /\ ret = 0
        /\ fresh = FALSE
        /\ resaved = NoResave
        /\ savedDates = (Today - k)..(Today - 1)

SavePricesDay == SavePricesOf([d \in ForecastSaveDates |-> ForecastLists(d)])

GetDataSufficiency ==
    Query(Call("get_data_sufficiency", 0, 0, <<>>), get_data_sufficiency(rows))

GetForecastForDays ==
    \E days_ahead \in 0..MaxDaysAhead :
        Query([Call("get_forecast_for_days", 0, 0, <<>>) EXCEPT !.days_ahead = days_ahead],
              get_forecast_for_days(rows, days_ahead))

NextForecast ==
    \/ SavePricesDay
    \/ GetDataSufficiency
    \/ GetForecastForDays

SpecForecast == InitForecast /\ [][NextForecast]_vars

(***************************************************************************)
(* A store of single quotes on a few days, and the forecast of one day.    *)
(***************************************************************************)
(* One day older than the 30-day window, and three days in it that share   *)
(* the weekday of Today.                                                   *)
HourDates == {Today - 35, Today - 14, Today - 7, Today}

(* A negative price before the window; positive and negative prices of    *)
(* one hour in it; a zero price of another hour today.                     *)
HourLists(d) ==
    IF d < Today - 30 THEN {<<>>, <<DayQuote(d, 9, -(3 * One))>>}
    ELSE IF d < Today
    THEN {<<>>, <<DayQuote(d, 9, 3 * One)>>, <<DayQuote(d, 9, -(3 * One))>>}
    ELSE {<<>>, <<DayQuote(d, 9, 3 * One)>>, <<DayQuote(d, 10, 0)>>}

(* A target on the weekday of the stored days, and one on another weekday. *)
HourTargets == {Today + 2, Today + 7}

HourCounts == {10, HOURS}

HoursCall(op, target_date, hours) ==
    [op |-> op, date |-> target_date, date2 |-> 0, prices |-> <<>>, days_ahead |-> 0,
     hours |-> hours]

SavePricesHour == SavePricesOf([d \in HourDates |-> HourLists(d)])

ForecastPatternBased ==
    \E target_date \in HourTargets, hours \in HourCounts :
        Query(HoursCall("forecast_pattern_based", target_date, hours),
              forecast_pattern_based(rows, target_date, hours))

ForecastStatistical ==
    \E target_date \in HourTargets, hours \in HourCounts :
        Query(HoursCall("forecast_statistical", target_date, hours),
              forecast_statistical(rows, target_date, hours))

NextHours ==
    \/ SavePricesHour
    \/ ForecastPatternBased
    \/ ForecastStatistical

SpecHours == Init /\ [][NextHours]_vars

(***************************************************************************)
(* A store of many quarter-hours at two price levels, and the place of a   *)
(* price among them.                                                       *)
(***************************************************************************)
(* The i-th quarter-hour before today, ten to a day, from 09:00 on. *)
StockQuote(i, czk) ==
    LET d == Today - 1 - (i \div 10)
        h == 9 + ((i % 10) \div 4)
        m == 15 * ((i % 10) % 4)
    IN SpotPrice(DateTime(d, h, m, 0), DateTime(d, h, m + 14, 59), One, czk)

(* The store after n quarter-hours were saved, the latest lows of them at  *)
(* the price 1 and the others at the price 2.                              *)
Stock(n, lows) ==
    {RowOf(Today - 1 - (i \div 10), StockQuote(i, IF i < lows THEN One ELSE 2 * One), 3 * One) :
        i \in 0..(n - 1)}

(* Sizes on both sides of the ten prices an answer needs, and sizes whose  *)
(* deciles fall on either side of the step between the two price levels.   *)
Stocks ==
    {<<0, 0>>, <<9, 5>>, <<10, 0>>, <<10, 5>>, <<19, 10>>, <<20, 2>>, <<20, 6>>,
     <<20, 14>>, <<20, 18>>, <<20, 20>>, <<30, 21>>, <<50, 29>>, <<90, 63>>}

StockPrices == {0, One, 3 * Pow2(FracBits - 1), 2 * One, 3 * One}

StockWindows == {2, 30}

AnalysisCall(op, price, days_back) ==
    [op |-> op, date |-> 0, date2 |-> 0, prices |-> <<>>, days_ahead |-> 0,
     price |-> price, days_back |-> days_back]

InitStock ==
    \E s \in Stocks :
        /\ rows = Stock(s[1], s[2])
        /\ call = Call("init_db", 0, 0, <<>>)
        /\ ret = 0
        /\ fresh = FALSE
        /\ resaved = NoResave
        /\ savedDates = {DateFromIso(r.report_date) : r \in Stock(s[1], s[2])}

ClassifyPrice ==
    \E price \in StockPrices, days_back \in StockWindows :
        Query(AnalysisCall("classify_price", price, days_back),
              classify_price(rows, price, days_back))

GetCurrentBenchmark ==
    \E price \in StockPrices, days_back \in StockWindows :
        Query(AnalysisCall("get_current_benchmark", price, days_back),
              get_current_benchmark(rows, price, days_back))

NextStock ==
    \/ ClassifyPrice
    \/ GetCurrentBenchmark

SpecStock == InitStock /\ [][NextStock]_vars

(***************************************************************************)
(* Stores of a few days with prices of either sign, and the peaks, the     *)
(* distribution and the volatility read from them.                         *)
(***************************************************************************)
(* The store after the quotes <<days ago, hour, quarter, price_czk>> were  *)
(* saved, each under the date of its day.                                  *)
Saved(quotes) ==
    {RowOf(Today - q[1],
           SpotPrice(DateTime(Today - q[1], q[2], 15 * q[3], 0),
                     DateTime(Today - q[1], q[2], 15 * q[3] + 14, 59), One, q[4]),
           3 * One) : q \in quotes}

(* n quarter-hours before today, per_day to a day from 09:00 on, the       *)
(* latest lows of them at the price low and the others at the price high.  *)
Run(n, per_day, lows, low, high) ==
    {<<1 + (i \div per_day), 9 + ((i % per_day) \div 4), (i % per_day) % 4,
       IF i < lows THEN low ELSE high>> : i \in 0..(n - 1)}

(* Two quarter-hours of the hour 9 on each of the last days, one at the    *)
(* price low and one at the price high.                                    *)
Swing(days, low, high) ==
    {<<d, 9, 0, low>> : d \in 1..days} \cup {<<d, 9, 1, high>> : d \in 1..days}

(* One price a day, higher on the earlier days: the weekday of tomorrow    *)
(* has a price of its own.                                                 *)
Rise(days) == {<<d, 9, 0, d * One>> : d \in 1..days}

PeakStocks ==
    {{},
     Run(1, 1, 1, -(2 * One), 0),
     Run(1, 1, 1, 2 * One, 0),
     Swing(1, -(3 * One), -One),
     Swing(2, One, 2 * One),
     Swing(3, -One, One),
     Swing(6, 0, 3 * Pow2(FracBits - 1)),
     Swing(10, One, 2 * One),
     Rise(7),
     Run(19, 10, 10, One, 2 * One),
     Run(20, 10, 20, One, One),
     Run(20, 10, 18, One, 2 * One),
     Run(24, 4, 12, -One, 3 * One),
     {<<1, 9, 0, -One>>, <<1, 9, 1, -(2 * One)>>, <<2, 9, 0, -One>>, <<31, 9, 0, -One>>,
      <<1, 11, 0, 0>>, <<2, 11, 0, -One>>, <<3, 11, 0, -One>>,
      <<2, 10, 0, -One>>, <<3, 10, 0, 0>>, <<4, 10, 0, -(3 * One)>>, <<4, 12, 0, One>>}}

PeakWindows == {4, 7, 30}

PeakPrices == {-(3 * One), One, 2 * One}

(* Two quarter-hours saved under the date of yesterday, one of the Sunday  *)
(* before it at 23:45 and one of the Wednesday to come at 00:00.           *)
OfOtherDays ==
    {RowOf(Today - 1, SpotPrice(DateTime(Today - 2, 23, 45, 0),
                                DateTime(Today - 2, 23, 59, 59), One, One), 3 * One),
     RowOf(Today - 1, SpotPrice(DateTime(Today + 1, 0, 0, 0),
                                DateTime(Today + 1, 0, 14, 59), One, 2 * One), 3 * One)}

InitPeaks ==
    \E stored \in {Saved(quotes) : quotes \in PeakStocks} \cup {OfOtherDays} :
        /\ rows = stored
        /\ call = Call("init_db", 0, 0, <<>>)
        /\ ret = 0
        /\ fresh = FALSE
        /\ resaved = NoResave
        /\ savedDates = {DateFromIso(r.report_date) : r \in stored}

GetPeakProbabilityByHour ==
    \E days_back \in PeakWindows :
        Query(AnalysisCall("get_peak_probability_by_hour", 0, days_back),
              get_peak_probability_by_hour(rows, days_back))

PredictPeaksTomorrow ==
    \E days_back \in PeakWindows :
        Query(AnalysisCall("predict_peaks_tomorrow", 0, days_back),
              predict_peaks_tomorrow(rows, days_back))

IsPricePeak ==
    \E current_price \in PeakPrices, days_back \in PeakWindows :
        Query(AnalysisCall("is_price_peak", current_price, days_back),
              is_price_peak(rows, current_price, days_back))

GetPriceDistribution ==
    \E days_back \in PeakWindows :
        Query(AnalysisCall("get_price_distribution", 0, days_back),
              get_price_distribution(rows, days_back))

GetVolatilityMetrics ==
    \E days_back \in PeakWindows :
        Query(AnalysisCall("get_volatility_metrics", 0, days_back),
              get_volatility_metrics(rows, days_back))

GetNegativePriceStats ==
    \E days_back \in PeakWindows :
        Query(AnalysisCall("get_negative_price_stats", 0, days_back),
              get_negative_price_stats(rows, days_back))

GetNegativePriceForecast ==
    Query(AnalysisCall("get_negative_price_forecast", 0, 30),
          get_negative_price_forecast(rows))

GetWeekdayAggregates ==
    \E days_back \in PeakWindows :
        Query(AnalysisCall("get_weekday_aggregates", 0, days_back),
              get_weekday_aggregates(rows, days_back))

GetPeakAnalysis ==
    \E days_back \in PeakWindows :
        Query(AnalysisCall("get_peak_analysis", 0, days_back),
              get_peak_analysis(rows, days_back))

NextPeaks ==
    \/ GetPeakProbabilityByHour
    \/ PredictPeaksTomorrow
    \/ IsPricePeak
    \/ GetPriceDistribution
    \/ GetVolatilityMetrics
    \/ GetNegativePriceStats
    \/ GetNegativePriceForecast
    \/ GetPeakAnalysis
    \/ GetWeekdayAggregates

SpecPeaks == InitPeaks /\ [][NextPeaks]_vars

(***************************************************************************)
(* Stores with prices of today and of the days before it, and the          *)
(* statistics read from them over windows from 0 days on.                  *)
(***************************************************************************)
(* One price a day at 09:00, the price of d days ago being prices[d + 1]. *)
Daily(prices) == {<<d - 1, 9, 0, prices[d]>> : d \in 1..Len(prices)}

(* Twenty quarter-hours of today from 09:00 on, the first two at the price *)
(* 2 and the others at the price 1.                                        *)
TwentyToday ==
    {<<0, 9 + (i \div 4), i % 4, IF i < 2 THEN 2 * One ELSE One>> : i \in 0..19}

TrendStocks ==
    {{},
     Daily(<<One>>),
     Daily(<<0, 0, 0>>),
     Daily(<<One, 0, One>>),
     Daily(<<2 * One, 2 * One, 3 * One, 4 * One, 4 * One>>),
     Daily(<<3 * One, 2 * One, One, One>>),
     Daily(<<2 * One, -One, -One>>),
     Rise(3),
     TwentyToday,
     {<<1, 5, 0, 2 * One>>, <<1, 9, 0, One>>, <<1, 17, 0, 3 * One>>, <<1, 23, 0, One>>,
      <<2, 9, 0, 3 * One>>, <<3, 9, 0, 0>>},
     {<<0, 3, 0, -One>>, <<1, 3, 0, One>>, <<1, 19, 0, 0>>}}

TrendWindows == {0, 1, 2, 3}

ProfileNames == {"home_office", "nocni", "flat"}

Samples == {<<>>, <<One, One, One>>, <<0, 0, One>>, <<One, 3 * One, 2 * One>>}

InitTrend ==
    \E quotes \in TrendStocks :
        /\ rows = Saved(quotes)
        /\ call = Call("init_db", 0, 0, <<>>)
        /\ ret = 0
        /\ fresh = FALSE
        /\ resaved = NoResave
        /\ savedDates = {Today - q[1] : q \in quotes}

GetPriceTrend ==
    \E days_back \in TrendWindows :
        Query(AnalysisCall("get_price_trend", 0, days_back),
              get_price_trend(rows, days_back))

AnalyzeConsumptionProfile ==
    \E profile_name \in ProfileNames, days_back \in TrendWindows :
        Query(AnalysisCall("analyze_consumption_profile", profile_name, days_back),
              analyze_consumption_profile(rows, profile_name, days_back))

GetAllProfilesComparison ==
    \E days_back \in TrendWindows :
        Query(AnalysisCall("get_all_profiles_comparison", 0, days_back),
              get_all_profiles_comparison(rows, days_back))

GetOptimalProfile ==
    \E days_back \in TrendWindows :
        Query(AnalysisCall("get_optimal_profile", 0, days_back),
              get_optimal_profile(rows, days_back))

(* The statistics of the other sections over the windows from 0 days on. *)
GetStatisticsOfWindow ==
    \E days_back \in TrendWindows :
        \/ Query(AnalysisCall("get_current_benchmark", One, days_back),
                 get_current_benchmark(rows, One, days_back))
        \/ Query(AnalysisCall("get_volatility_metrics", 0, days_back),
                 get_volatility_metrics(rows, days_back))
        \/ Query(AnalysisCall("get_peak_analysis", 0, days_back),
                 get_peak_analysis(rows, days_back))
        \/ Query(AnalysisCall("get_peak_probability_by_hour", 0, days_back),
                 get_peak_probability_by_hour(rows, days_back))
        \/ Query(AnalysisCall("get_price_distribution", 0, days_back),
                 get_price_distribution(rows, days_back))

CalculateCorrelation ==
    \E x, y \in Samples :
        Query([op |-> "_calculate_correlation", x |-> x, y |-> y],
              calculate_correlation(x, y))

NextTrend ==
    \/ GetPriceTrend
    \/ AnalyzeConsumptionProfile
    \/ GetAllProfilesComparison
    \/ GetOptimalProfile
    \/ GetStatisticsOfWindow
    \/ CalculateCorrelation

SpecTrend == InitTrend /\ [][NextTrend]_vars

(***************************************************************************)
(* A local database file that is saved to and synchronised.                *)
(***************************************************************************)
Answers == {"y", "n", "", "Abort"}

(* The database offered for download, and the failures of a download. *)
Downloads ==
    {[status_code |-> 200, content |-> History(k)] : k \in 0..2}
        \cup {[status_code |-> s, content |-> {}] : s \in {404, 500}}
        \cup {RequestError}

LocalSaveDates == {Today - 1, Today}

InitSync ==
    /\ rows = <<>>
    /\ call = Call("init_db", 0, 0, <<>>)
    /\ ret = 0
    /\ fresh = FALSE
    /\ resaved = NoResave
    /\ savedDates = {}

(* The save command on the local file, which get_connection creates. *)
SaveLocal ==
    \E d \in LocalSaveDates : \E prices \in ForecastLists(d) :
        LET saved == save_prices(IF rows = <<>> THEN {} ELSE rows[1], d, prices, 3 * One)
        IN /\ rows' = <<saved.table>>
           /\ call' = Call("save_prices", d, 0, prices)
           /\ ret' = saved.rowcount
           /\ UNCHANGED <<fresh, resaved, savedDates>>

Sync ==
    \E force \in BOOLEAN, answer \in Answers, download \in Downloads :
        LET done == sync(rows, force, answer, download)
        IN /\ rows' = done.file
           /\ call' = [op |-> "sync", force |-> force, answer |-> answer,
                       download |-> download]
           /\ ret' = [out |-> done.out, asked |-> done.asked,
                      requested |-> done.requested]
           /\ UNCHANGED <<fresh, resaved, savedDates>>

NextSync ==
    \/ SaveLocal
    \/ Sync

SpecSync == InitSync /\ [][NextSync]_vars

(***************************************************************************)
(* Hours of weather on either side of every threshold of the adjustment.   *)
(***************************************************************************)
Temperatures == {NaN} \cup {Float(t) : t \in {-6, -5, -1, 0, 25, 26, 30, 31}}

CloudCovers == {0, 29, 30, 49, 50, 79, 80, 100}

SolarRadiations == {NaN} \cup {Float(s) : s \in {0, 300, 301}}

WindSpeeds == {NaN} \cup {Float(w) : w \in {0, 3, 4, 7, 8, 9, 10, 20}}

WeatherCall(op, weather) == [op |-> op, weather |-> weather]

InitWeather ==
    /\ rows = {}
    /\ call = Call("init_db", 0, 0, <<>>)
    /\ ret = 0
    /\ fresh = FALSE
    /\ resaved = NoResave
    /\ savedDates = {}

GetWeatherAdjustmentFactor ==
    \E t \in Temperatures, c \in CloudCovers, s \in SolarRadiations, w \in WindSpeeds :
        /\ call' = WeatherCall("get_weather_adjustment_factor",
                               WeatherData(t, c, s, w, Float(0)))
        /\ ret' = get_weather_adjustment_factor(WeatherData(t, c, s, w, Float(0)))
        /\ UNCHANGED <<rows, fresh, resaved, savedDates>>

NextWeather ==
    \/ GetWeatherAdjustmentFactor

SpecWeather == InitWeather /\ [][NextWeather]_vars

(***************************************************************************)
(* Properties of the store.                                                *)
(***************************************************************************)
Ops == {"save_prices", "get_prices_for_date", "get_daily_stats",
        "get_prices_for_range", "get_data_days_count"}

(* Seconds since day 0: the chronological order of datetimes. *)
Instant(t) == ((t.date * 24 + t.hour) * 60 + t.minute) * 60 + t.second

(* The index of the last element of prices with the given time_from. *)
LastIndexOf(prices, tf) ==
    CHOOSE i \in 1..Len(prices) :
        /\ prices[i].time_from = tf
        /\ \A j \in (i + 1)..Len(prices) : prices[j].time_from # tf

Ascending(got) ==
    \A i, j \in 1..Len(got) : i < j => Instant(got[i].time_from) <= Instant(got[j].time_from)

(* Every stored number is a REAL. *)
RowsAreReal ==
    \A r \in rows : IsReal(r.price_eur) /\ IsReal(r.price_czk) /\ IsReal(r.eur_czk_rate)

(* C1: after any sequence of save_prices calls the store holds at most one *)
(* row for each pair (report_date, time_from).                             *)
C1_UniqueKey ==
    \A r, s \in rows :
        (r.report_date = s.report_date /\ r.time_from = s.time_from) => r = s

(* A save whose list names one time_from twice, with different quotes, for *)
(* a date that already had rows.                                           *)
C1_Witness ==
    /\ call.op = "save_prices"
    /\ ~fresh
    /\ \E i, j \in 1..Len(call.prices) :
          /\ i < j
          /\ call.prices[i].time_from = call.prices[j].time_from
          /\ call.prices[i] # call.prices[j]

C3_Original ==
    (call.op = "save_prices" /\ fresh) =>
        LET got == get_prices_for_date(rows, call.date)
        IN /\ Len(got) = Len(call.prices)
           /\ {got[i] : i \in 1..Len(got)} = {call.prices[i] : i \in 1..Len(call.prices)}
           /\ Ascending(got)

(* C3, amended: the round trip returns, by ascending time_from, one price  *)
(* for each distinct time_from of P: the last element of P with that       *)
(* time_from (exactly P, reordered, when the time_from values of P are     *)
(* pairwise distinct).                                                     *)
C3_RoundTrip ==
    (call.op = "save_prices" /\ fresh) =>
        LET got == get_prices_for_date(rows, call.date)
        IN /\ Len(got) = Cardinality(TimesFrom(call.prices))
           /\ {got[i] : i \in 1..Len(got)} =
                 {call.prices[LastIndexOf(call.prices, tf)] : tf \in TimesFrom(call.prices)}
           /\ \A i, j \in 1..Len(got) :
                 i < j => Instant(got[i].time_from) < Instant(got[j].time_from)

(* A first save of a date whose list is not in time order. *)
C3_Witness ==
    /\ call.op = "save_prices"
    /\ fresh
    /\ Len(call.prices) = 2
    /\ Instant(call.prices[2].time_from) < Instant(call.prices[1].time_from)

C5_RowCount == call.op = "save_prices" => ret = Len(call.prices)

(* A save that replaced a stored row. *)
C5_Witness ==
    /\ call.op = "save_prices"
    /\ ~fresh
    /\ resaved > 0
    /\ ret > 0

(* C6: get_data_days_count is the number of distinct report dates saved    *)
(* with a non-empty list, however often a date was saved; 0 on an empty    *)
(* store.                                                                  *)
C6_DaysCount ==
    /\ get_data_days_count(rows) = Cardinality(savedDates)
    /\ call.op = "get_data_days_count" => ret = Cardinality(savedDates)
    /\ rows = {} => get_data_days_count(rows) = 0

(* The count of a store with more rows than dates. *)
C6_Witness ==
    /\ call.op = "get_data_days_count"
    /\ ret >= 2
    /\ Cardinality(rows) > ret

(* C7: get_daily_stats(d) is None exactly when no row is stored for d;     *)
(* otherwise count is the number of rows of d, min and max are the         *)
(* smallest and largest price_czk of d, and min <= avg <= max.             *)
C7_DailyStats ==
    call.op = "get_daily_stats" =>
        LET czk == {r.price_czk : r \in RowsOfDate(rows, call.date)}
        IN IF czk = {}
           THEN ret = None
           ELSE /\ ret # None
                /\ ret.count = Cardinality(RowsOfDate(rows, call.date))
                /\ ret.min \in czk /\ \A x \in czk : ret.min <= x
                /\ ret.max \in czk /\ \A x \in czk : x <= ret.max
                /\ ret.min <= ret.avg
                /\ ret.avg <= ret.max

(* The number of times x occurs in the sequence got. *)
Occurrences(got, x) == Cardinality({i \in 1..Len(got) : got[i] = x})

(* C8: get_prices_for_range(start, end) returns the rows with              *)
(* start <= report_date <= end, each once, by ascending time_from, and     *)
(* nothing when start > end.                                               *)
C8_Range ==
    call.op = "get_prices_for_range" =>
        LET wanted == {r \in rows : /\ call.date <= DateFromIso(r.report_date)
                                    /\ DateFromIso(r.report_date) <= call.date2}
        IN /\ Len(ret) = Cardinality(wanted)
           /\ \A r \in wanted :
                 Occurrences(ret, SpotPriceOfRow(r)) =
                     Cardinality({s \in wanted : SpotPriceOfRow(s) = SpotPriceOfRow(r)})
           /\ Ascending(ret)
           /\ call.date > call.date2 => ret = <<>>

(* A range of one day that returns rows while another day has rows too. *)
C8_Witness ==
    /\ call.op = "get_prices_for_range"
    /\ call.date = call.date2
    /\ Len(ret) = 2
    /\ Cardinality(rows) > 2

(***************************************************************************)
(* Properties of the forecasts.                                            *)
(***************************************************************************)
(* The number of distinct report dates of the store. *)
StoredDays == Cardinality({DateFromIso(r.report_date) : r \in rows})

(* C9: get_data_sufficiency reports total_days = n, can_show_tomorrow,     *)
(* hourly patterns iff n >= 7, weekly patterns and statistical forecast    *)
(* iff n >= 14; so statistical forecast implies hourly patterns.           *)
C9_Sufficiency ==
    call.op = "get_data_sufficiency" =>
        /\ StoredDays = Cardinality(savedDates)
        /\ ret.total_days = StoredDays
        /\ ret.can_show_tomorrow
        /\ ret.can_show_hourly_patterns <=> StoredDays >= 7
        /\ ret.can_show_weekly_patterns <=> StoredDays >= 14
        /\ ret.can_show_statistical_forecast <=> StoredDays >= 14
        /\ ret.can_show_statistical_forecast => ret.can_show_hourly_patterns

(* The report on a store of exactly 14 days. *)
C9_Witness ==
    /\ call.op = "get_data_sufficiency"
    /\ ret.total_days = 14
    /\ ret.can_show_statistical_forecast

(* C10: with at least 14 stored days every forecast get_forecast_for_days  *)
(* returns has method "statistická", with 7 to 13 days every forecast has  *)
(* method "hodinový vzorec", with fewer than 7 days the mapping is empty.  *)
C10_Method ==
    call.op = "get_forecast_for_days" =>
        LET methods == UNION {{ret[t][i].method : i \in 1..Len(ret[t])} : t \in DOMAIN ret}
        IN /\ StoredDays >= 14 => methods \subseteq {"statistická"}
           /\ (7 <= StoredDays /\ StoredDays <= 13) => methods \subseteq {"hodinový vzorec"}
           /\ StoredDays < 7 => DOMAIN ret = {}

(* Forecasts for two days made from exactly 14 stored days. *)
C10_Witness ==
    /\ call.op = "get_forecast_for_days"
    /\ StoredDays = 14
    /\ Cardinality(DOMAIN ret) = 2

(* C11: get_forecast_for_days(days_ahead) has keys only among the days     *)
(* Today + 2 .. Today + days_ahead: today and tomorrow are never keys,     *)
(* every value is a non-empty list, and the mapping is empty when          *)
(* days_ahead < 2.                                                         *)
C11_ForecastDays ==
    call.op = "get_forecast_for_days" =>
        /\ DOMAIN ret \subseteq (Today + 2)..(Today + call.days_ahead)
        /\ \A t \in DOMAIN ret : t > Today + 1 /\ ret[t] # <<>>
        /\ call.days_ahead < 2 => DOMAIN ret = {}

(* Forecasts asked for days_ahead >= 2 and made for the day Today + 2. *)
C11_Witness ==
    /\ call.op = "get_forecast_for_days"
    /\ call.days_ahead >= 2
    /\ Today + 2 \in DOMAIN ret
    /\ Today + 1 \notin DOMAIN ret

(* The hours below the given count that have a row in the last 30 days. *)
HoursWithHistory(hours) ==
    {h \in 0..(hours - 1) : \E r \in InWindow(rows, 30) : HourOf(r.time_from) = h}

(* The forecasts are the four quarters of each hour of the set, in order. *)
QuartersOf(forecasts, target_date, hourSet) ==
    /\ Len(forecasts) = 4 * Cardinality(hourSet)
    /\ \A h \in hourSet, q \in 0..3 :
           \E i \in 1..Len(forecasts) :
               /\ forecasts[i].time_from = DateTime(target_date, h, 15 * q, 0)
               /\ forecasts[i].time_to = DateTime(target_date, h, 15 * q + 14, 59)

(* forecast_pattern_based returns four quarters for each hour with history *)
(* and none for the others, all of method "hodinový vzorec".               *)
PatternShape ==
    call.op = "forecast_pattern_based" =>
        /\ QuartersOf(ret, call.date, HoursWithHistory(call.hours))
        /\ \A i \in 1..Len(ret) : ret[i].method = "hodinový vzorec"
        /\ rows = {} => ret = <<>>

(* C12: forecast_pattern_based returns, for each hour below hours with     *)
(* history in the last 30 days, exactly four quarter-hour forecasts on     *)
(* target_date and none for other hours; each has method "hodinový vzorec" *)
(* and confidence_low <= price_czk <= confidence_high; an empty store      *)
(* gives the empty list.                                                   *)
C12_PatternBased ==
    /\ PatternShape
    /\ call.op = "forecast_pattern_based" =>
           \A i \in 1..Len(ret) :
               /\ ret[i].confidence_low <= ret[i].price_czk
               /\ ret[i].price_czk <= ret[i].confidence_high

(* C13: every forecast of forecast_statistical has confidence_low >= 0 and *)
(* confidence_high - confidence_low >= 0, whatever the sign of the stored  *)
(* prices.                                                                 *)
C13_Confidence ==
    call.op = "forecast_statistical" =>
        \A i \in 1..Len(ret) :
            /\ ret[i].confidence_low >= 0
            /\ ret[i].confidence_high - ret[i].confidence_low >= 0

(***************************************************************************)
(* Properties of the place of a price among the stored prices.             *)
(***************************************************************************)
(* The stored price_czk between days_back days ago and today, as a bag     *)
(* held in a sequence.                                                     *)
WindowPrices(days_back) ==
    LET S == InRange(rows, Today - days_back, Today)
        visited == Scan(S)
    IN [i \in 1..Len(visited) |-> visited[i].price_czk]

Classes == <<"velmi levná", "levná", "normální", "drahá", "velmi drahá">>

ClassRank(class) == CHOOSE i \in 1..Len(Classes) : Classes[i] = class

(* The element at index floor(n * num / den) of the ascending prices. *)
AtFloor(prices, num, den) == Sorted(prices)[((Len(prices) * num) \div den) + 1]

ClassOf(prices, price) ==
    IF price <= AtFloor(prices, 1, 10) THEN "velmi levná"
    ELSE IF price <= AtFloor(prices, 3, 10) THEN "levná"
    ELSE IF price <= AtFloor(prices, 7, 10) THEN "normální"
    ELSE IF price <= AtFloor(prices, 9, 10) THEN "drahá"
    ELSE "velmi drahá"

SeqMin(xs) == SetMin({xs[i] : i \in 1..Len(xs)})

SeqMax(xs) == SetMax({xs[i] : i \in 1..Len(xs)})

(* The parts of C16 that do not name the index of a threshold: the answer  *)
(* without ten prices, the five classes, and the two ends of the scale.    *)
ClassifyEnds ==
    call.op = "classify_price" =>
        LET prices == WindowPrices(call.days_back)
        IN IF Len(prices) < 10 THEN ret = "nedostatek dat"
           ELSE /\ \E i \in 1..Len(Classes) : ret = Classes[i]
                /\ call.price <= SeqMin(prices) => ret = "velmi levná"
                /\ call.price > SeqMax(prices) => ret = "velmi drahá"

(* The monotone part of C16: of two prices classified against one store,   *)
(* the higher never gets the cheaper class.                                *)
ClassifyMonotone ==
    [][(/\ call.op = "classify_price"
        /\ call'.op = "classify_price"
        /\ call.days_back = call'.days_back
        /\ call.price <= call'.price
        /\ ret # "nedostatek dat")
       => ClassRank(ret) <= ClassRank(ret')]_vars

(* C16: classify_price answers "nedostatek dat" when fewer than 10 prices  *)
(* are stored in the window, and otherwise the class of the price among    *)
(* the thresholds at the indices floor(n * q), q = 0.1, 0.3, 0.7, 0.9, of  *)
(* the ascending prices.                                                   *)
C16_Classify ==
    call.op = "classify_price" =>
        LET prices == WindowPrices(call.days_back)
        IN ret = IF Len(prices) < 10 THEN "nedostatek dat" ELSE ClassOf(prices, call.price)

BelowCount(prices, price) == Cardinality({i \in 1..Len(prices) : prices[i] < price})

ClassOfRank(rank) ==
    IF rank <= 10 THEN "velmi levná"
    ELSE IF rank <= 30 THEN "levná"
    ELSE IF rank <= 70 THEN "normální"
    ELSE IF rank <= 90 THEN "drahá"
    ELSE "velmi drahá"

(* The parts of C17 that do not name the value of the rank between its     *)
(* ends: the answer without ten prices, the range and the ends of the      *)
(* rank, and the class of the rank.                                        *)
BenchmarkEnds ==
    call.op = "get_current_benchmark" =>
        LET prices == WindowPrices(call.days_back)
        IN IF Len(prices) < 10
           THEN /\ ret.classification = "nedostatek dat"
                /\ ret.percentile_rank = 50
                /\ ret.avg_7d = 0
                /\ ret.avg_30d = 0
           ELSE /\ ret.percentile_rank \in 0..100
                /\ call.price <= SeqMin(prices) => ret.percentile_rank = 0
                /\ call.price > SeqMax(prices) => ret.percentile_rank = 100
                /\ ret.classification = ClassOfRank(ret.percentile_rank)

(* C17: with ten or more prices in the window, the percentile_rank that    *)
(* get_current_benchmark returns is floor(100 * below / n), below the      *)
(* number of stored prices under current_price and n the number of stored  *)
(* prices, and the classification is the class of that rank.               *)
C17_Benchmark ==
    call.op = "get_current_benchmark" =>
        LET prices == WindowPrices(call.days_back)
            rank == (100 * BelowCount(prices, call.price)) \div Len(prices)
        IN Len(prices) >= 10 =>
              /\ ret.percentile_rank = rank
              /\ ret.classification = ClassOfRank(rank)

(***************************************************************************)
(* Properties of the peaks, the distribution and the volatility.           *)
(***************************************************************************)
RiskOf(prob) ==
    IF prob[1] * 2 >= prob[2] THEN "vysoké"
    ELSE IF prob[1] * 5 >= prob[2] THEN STREDNI
    ELSE "nízké"

(* The parts of C14 other than the order of the interval: the range of the *)
(* probability and of the hour, the risk level, one prediction an hour.    *)
PredictionShape ==
    call.op = "predict_peaks_tomorrow" =>
        /\ \A i \in 1..Len(ret) :
              /\ ret[i].probability[1] >= 0
              /\ ret[i].probability[1] <= ret[i].probability[2]
              /\ ret[i].hour \in 0..23
              /\ ret[i].risk_level = RiskOf(ret[i].probability)
        /\ \A i, j \in 1..Len(ret) : ret[i].hour = ret[j].hour => i = j

(* C14: every prediction of predict_peaks_tomorrow has                     *)
(* confidence_low <= expected_price <= confidence_high, a probability in   *)
(* [0, 1], an hour in 0..23 and the risk level of its probability, and no  *)
(* two predictions share an hour.                                          *)
C14_Predictions ==
    /\ PredictionShape
    /\ call.op = "predict_peaks_tomorrow" =>
          \A i \in 1..Len(ret) :
              /\ ret[i].confidence_low <= ret[i].expected_price
              /\ ret[i].expected_price <= ret[i].confidence_high

(* The rows between days_back days ago and today. *)
WindowRows(days_back) == InRange(rows, Today - days_back, Today)

(* The number of rows of the window in hour h at or above the 90th         *)
(* percentile of the window, the price at index floor(0.9 n).              *)
PeaksOfHour(days_back, h) ==
    LET threshold == AtFloor(WindowPrices(days_back), 9, 10)
    IN Cardinality({r \in WindowRows(days_back) :
                       HourOf(r.time_from) = h /\ r.price_czk >= threshold})

(* C15: get_peak_probability_by_hour returns a mapping of exactly the      *)
(* hours 0..23 to values in [0, 1]; the value of hour h is                 *)
(* min(1, c_h / days_back), c_h the number of stored prices of hour h at   *)
(* or above the 90th percentile, and every value is 0 when fewer than 20   *)
(* prices are stored in the window.                                        *)
C15_PeakProbability ==
    call.op = "get_peak_probability_by_hour" =>
        /\ DOMAIN ret = 0..23
        /\ \A h \in 0..23 :
              /\ 0 <= ret[h][1]
              /\ ret[h][1] <= ret[h][2]
              /\ IF Cardinality(WindowRows(call.days_back)) < 20 THEN ret[h][1] = 0
                 ELSE LET c == PeaksOfHour(call.days_back, h)
                      IN IF c >= call.days_back THEN ret[h][1] = ret[h][2]
                         ELSE ret[h][1] * call.days_back = c * ret[h][2]

(* A store of 20 prices or more in which one hour has more peaks than the  *)
(* window has days and another has fewer.                                  *)
C15_Witness ==
    /\ call.op = "get_peak_probability_by_hour"
    /\ Cardinality(WindowRows(call.days_back)) >= 20
    /\ \E h \in 0..23 : 0 < ret[h][1] /\ ret[h][1] < ret[h][2]
    /\ \E h \in 0..23 : ret[h] = <<1, 1>> /\ PeaksOfHour(call.days_back, h) > call.days_back

(* C18: get_price_distribution returns empty bins, counts and percentiles  *)
(* when fewer than 10 prices are stored in the window; otherwise 20 bins   *)
(* and 20 counts, and percentiles p10 <= p25 <= p50 <= p75 <= p90 that are *)
(* each one of the stored prices.                                          *)
C18_Distribution ==
    call.op = "get_price_distribution" =>
        LET prices == WindowPrices(call.days_back)
            stored == {prices[i] : i \in 1..Len(prices)}
        IN IF Len(prices) < 10
           THEN ret.bins = <<>> /\ ret.counts = <<>> /\ ret.percentiles = <<>>
           ELSE /\ Len(ret.bins) = 20
                /\ Len(ret.counts) = 20
                /\ DOMAIN ret.percentiles = {"p10", "p25", "p50", "p75", "p90"}
                /\ ret.percentiles.p10 <= ret.percentiles.p25
                /\ ret.percentiles.p25 <= ret.percentiles.p50
                /\ ret.percentiles.p50 <= ret.percentiles.p75
                /\ ret.percentiles.p75 <= ret.percentiles.p90
                /\ \A k \in DOMAIN ret.percentiles : ret.percentiles[k] \in stored

(* Ten prices or more, with a 10th percentile below the 90th. *)
C18_Witness ==
    /\ call.op = "get_price_distribution"
    /\ Len(ret.bins) = 20
    /\ ret.percentiles.p10 < ret.percentiles.p90

(* The number of report dates from days_back days ago on. *)
DaysInWindow(days_back) == Cardinality({r.report_date : r \in InWindow(rows, days_back)})

(* The parts of C19 other than the order of the two swings: the answer     *)
(* below three daily averages, the signs, the order of the two values at   *)
(* risk, and the trend.                                                    *)
VolatilityShape ==
    call.op = "get_volatility_metrics" =>
        IF DaysInWindow(call.days_back) < 3
        THEN ret = [daily_volatility |-> 0, intraday_volatility |-> 0,
                    max_daily_swing |-> 0, avg_daily_swing |-> 0, var_95 |-> 0,
                    var_99 |-> 0, volatility_trend |-> "nedostatek dat"]
        ELSE /\ ret.daily_volatility >= 0
             /\ ret.intraday_volatility >= 0
             /\ ret.avg_daily_swing >= 0
             /\ ret.var_99 >= ret.var_95
             /\ ret.volatility_trend \in {"rostoucí", "klesající", "stabilní", "nedostatek dat"}
             /\ ret.volatility_trend = "nedostatek dat" <=> DaysInWindow(call.days_back) < 6

(* C19: get_volatility_metrics returns zeros and the trend "nedostatek     *)
(* dat" below three daily averages; otherwise both volatilities are >= 0,  *)
(* max_daily_swing >= avg_daily_swing >= 0, var_99 >= var_95, and the      *)
(* trend is "nedostatek dat" exactly below six daily averages.             *)
C19_Volatility ==
    /\ VolatilityShape
    /\ call.op = "get_volatility_metrics" => ret.max_daily_swing >= ret.avg_daily_swing

(* C20: when is_price_peak returns True, at least 90% of the prices stored *)
(* in the window are at or below current_price, and a price below every    *)
(* stored price is never a peak.                                           *)
C20_IsPeak ==
    call.op = "is_price_peak" =>
        LET prices == WindowPrices(call.days_back)
            n == Len(prices)
            at_or_below == Cardinality({i \in 1..n : prices[i] <= call.price})
        IN /\ ret = TRUE => 10 * at_or_below >= 9 * n
           /\ (n > 0 /\ \A i \in 1..n : call.price < prices[i]) => ret = FALSE

(* The first part of C20 where 20 prices or more are stored in the window. *)
IsPeakOfTwenty ==
    call.op = "is_price_peak" =>
        LET prices == WindowPrices(call.days_back)
            n == Len(prices)
            at_or_below == Cardinality({i \in 1..n : prices[i] <= call.price})
        IN n >= 20 => /\ ret = TRUE => 10 * at_or_below >= 9 * n
                      /\ (\A i \in 1..n : call.price < prices[i]) => ret = FALSE

(***************************************************************************)
(* Properties of the negative prices.                                      *)
(***************************************************************************)
(* The report dates of the last 30 days on which hour h has a stored price *)
(* <= 0.                                                                   *)
NegativeDates(h) ==
    {r.report_date : r \in {s \in WindowRows(30) : HourOf(s.time_from) = h /\ s.price_czk <= 0}}

Mild(weather) == Ge(weather.temperature, 0) /\ ~Gt(weather.temperature, 25)
                 /\ weather.temperature # NaN

Statistics ==
    {"get_price_trend", "get_current_benchmark", "analyze_consumption_profile",
     "get_volatility_metrics", "get_peak_analysis", "get_peak_probability_by_hour",
     "get_price_distribution"}

(* C23: no statistics function divides by zero: for every content of the   *)
(* store and every days_back >= 0, get_price_trend, get_current_benchmark, *)
(* analyze_consumption_profile, get_volatility_metrics, get_peak_analysis, *)
(* get_peak_probability_by_hour, get_price_distribution and                *)
(* _calculate_correlation return a value instead of raising.               *)
C23_NoZeroDivision ==
    /\ call.op \in Statistics => ret # ZeroDivisionError
    /\ call.op = "_calculate_correlation" => ret \in Int

(* C23 for the windows of one day or more. *)
NoZeroDivisionFromOneDay ==
    /\ (call.op \in Statistics /\ call.days_back >= 1) => ret # ZeroDivisionError
    /\ call.op = "_calculate_correlation" => ret \in Int

(* The statistics that raise over the window of 0 days. *)
ZeroDivisionOfToday ==
    (call.op \in Statistics /\ ret = ZeroDivisionError) =>
        \/ call.op = "get_price_trend"
        \/ call.op = "get_peak_probability_by_hour" /\ Cardinality(rows) >= 20

(* The hours of the profile of the given name. *)
HoursOfProfile(name) ==
    LET profile_def == CONSUMPTION_PROFILES[CHOOSE i \in 1..Len(CONSUMPTION_PROFILES) :
                                                CONSUMPTION_PROFILES[i].name = name]
    IN {profile_def.hours[i] : i \in 1..Len(profile_def.hours)}

DefinedProfiles == {CONSUMPTION_PROFILES[i].name : i \in 1..Len(CONSUMPTION_PROFILES)}

(* C24: get_all_profiles_comparison returns at most one entry for each     *)
(* defined consumption profile, sorted by ascending avg_price_czk;          *)
(* get_optimal_profile returns the name of the first entry of that list, a *)
(* key of CONSUMPTION_PROFILES, or None when the list is empty;            *)
(* analyze_consumption_profile returns None for a name that is not defined *)
(* and when no price stored for the days from days_back days ago to today  *)
(* falls in the hours of the profile.                                      *)
C24_Profiles ==
    /\ call.op = "get_all_profiles_comparison" =>
          /\ \A i \in 1..Len(ret) : ret[i].name \in DefinedProfiles
          /\ \A i, j \in 1..Len(ret) : i < j =>
                 /\ ret[i].name # ret[j].name
                 /\ ret[i].avg_price_czk <= ret[j].avg_price_czk
    /\ call.op = "get_optimal_profile" =>
          LET profiles == get_all_profiles_comparison(rows, call.days_back)
          IN IF profiles = <<>> THEN ret = None
             ELSE ret = profiles[1].name /\ ret \in DefinedProfiles
    /\ call.op = "analyze_consumption_profile" =>
          /\ call.price \notin DefinedProfiles => ret = None
          /\ (call.price \in DefinedProfiles
              /\ \A r \in InRange(rows, Today - call.days_back, Today) :
                     HourOf(r.time_from) \notin HoursOfProfile(call.price))
             => ret = None

C24_Witness ==
    /\ call.op = "get_all_profiles_comparison"
    /\ Len(ret) = 5
    /\ ret[1].name = "home_office"
    /\ ret[3].avg_price_czk < ret[4].avg_price_czk
    /\ ret[5].name = "vecerni"

(* What C25 states of the trend over days_back days. *)
TrendAsStated(days_back) ==
    LET daily_avgs == get_daily_averages(rows, 2 * days_back)
        n == Len(daily_avgs)
        first == IF n >= 2 * days_back THEN n - 2 * days_back + 1 ELSE 1
        current_avg == Mean([i \in 1..days_back |->
                                daily_avgs[n - days_back + i].avg_price])
        previous_avg == Mean([i \in 1..(n - days_back + 1 - first) |->
                                 daily_avgs[first - 1 + i].avg_price])
        change_percent ==
            IF previous_avg = 0 THEN 0
            ELSE RealMul(RealDiv(RealSub(current_avg, previous_avg), previous_avg),
                         100 * One)
    IN /\ ret # ZeroDivisionError
       /\ IF n < days_back \/ n = days_back
          THEN ret.direction = "nedostatek dat" /\ ret.change_percent = None
          ELSE /\ ret.change_percent = change_percent
               /\ ret.direction = "rostoucí" <=> change_percent > 5 * One
               /\ ret.direction = "klesající" <=> change_percent < -(5 * One)
               /\ ret.direction = "stabilní" <=>
                      (change_percent <= 5 * One /\ change_percent >= -(5 * One))

(* C25: get_price_trend(days_back) returns the direction "nedostatek dat"  *)
(* and change_percent None when the last 2 * days_back days have fewer     *)
(* than days_back daily averages, or exactly days_back of them, so that    *)
(* none precedes the current period; otherwise change_percent is           *)
(* 100 * (current_avg - previous_avg) / previous_avg, or 0 for a           *)
(* previous_avg of 0, the current period being the last days_back daily    *)
(* averages and the previous period the up to days_back averages before    *)
(* it, and the direction is "rostoucí" iff change_percent > 5, "klesající" *)
(* iff change_percent < -5 and "stabilní" otherwise.                       *)
C25_Trend == call.op = "get_price_trend" => TrendAsStated(call.days_back)

(* C25 for the trends over one day or more. *)
TrendFromOneDay ==
    (call.op = "get_price_trend" /\ call.days_back >= 1) => TrendAsStated(call.days_back)

(***************************************************************************)
(* Properties of the peak analysis.                                        *)
(***************************************************************************)
(* The sum of the values of a dict of counts. *)
SumOfCounts(distribution) ==
    Cardinality(UNION {{<<h, k>> : k \in 1..distribution[h]} : h \in DOMAIN distribution})

(* The parts of C26 other than the place of avg_peak_price. *)
PeakAnalysisShape ==
    call.op = "get_peak_analysis" =>
        LET prices == WindowPrices(call.days_back)
            n == Len(prices)
            distribution == ret.peak_hours_distribution
            risky == ret.most_risky_hours
        IN IF n < 20
           THEN ret = [threshold_p90 |-> 0, total_peaks_30d |-> 0,
                       peak_hours_distribution |-> <<>>, most_risky_hours |-> <<>>,
                       avg_peak_price |-> 0, max_peak_price |-> 0]
           ELSE /\ ret.threshold_p90 = AtFloor(prices, 9, 10)
                /\ ret.total_peaks_30d
                       = Cardinality({i \in 1..n : prices[i] >= ret.threshold_p90})
                /\ ret.total_peaks_30d = SumOfCounts(distribution)
                /\ ret.total_peaks_30d >= n - ((9 * n) \div 10)
                /\ n - ((9 * n) \div 10) >= 1
                /\ ret.max_peak_price = SeqMax(prices)
                /\ ret.threshold_p90 <= ret.max_peak_price
                /\ Len(risky) <= 5
                /\ \A i \in 1..Len(risky) : risky[i] \in DOMAIN distribution
                /\ \A i, j \in 1..Len(risky) : i < j =>
                       /\ risky[i] # risky[j]
                       /\ distribution[risky[i]] >= distribution[risky[j]]

(* C26: get_peak_analysis returns the all-zero, empty result when fewer    *)
(* than 20 prices are stored in the window; otherwise threshold_p90 is the *)
(* sorted price at index floor(0.9 n), total_peaks_30d is the number of    *)
(* stored prices >= threshold_p90, the sum of the values of                *)
(* peak_hours_distribution and at least n - floor(0.9 n) >= 1,             *)
(* threshold_p90 <= avg_peak_price <= max_peak_price with max_peak_price   *)
(* the maximum stored price, and most_risky_hours holds at most 5 distinct *)
(* hours, keys of the distribution, in non-increasing order of their       *)
(* count.                                                                  *)
C26_PeakAnalysis ==
    /\ PeakAnalysisShape
    /\ (call.op = "get_peak_analysis" /\ Len(WindowPrices(call.days_back)) >= 20) =>
          /\ ret.threshold_p90 <= ret.avg_peak_price
          /\ ret.avg_peak_price <= ret.max_peak_price

(***************************************************************************)
(* Properties of the weekday aggregates.                                   *)
(***************************************************************************)
(* The date of a stored time_from. *)
DateOfText(text) == DateFromIso(SubSeq(text, 1, 3))

(* C27: get_weekday_aggregates converts the weekday number w of the store  *)
(* (0 = Sunday .. 6 = Saturday) to (w - 1) mod 7: every returned weekday   *)
(* is in 0..6, the conversion is a bijection of 0..6, and the aggregates   *)
(* are those of the Monday-based weekday (0 = Monday .. 6 = Sunday) and    *)
(* the hour of the time_from of the rows of the window.                    *)
C27_Weekday ==
    /\ {(w - 1) % 7 : w \in 0..6} = 0..6
    /\ call.op = "get_weekday_aggregates" =>
          LET window == InWindow(rows, call.days_back)
              Group(wd, h) == {r \in window : /\ weekday(DateOfText(r.time_from)) = wd
                                              /\ HourOf(r.time_from) = h}
          IN /\ \A i \in 1..Len(ret) :
                    /\ ret[i].weekday \in 0..6
                    /\ ret[i].count = Cardinality(Group(ret[i].weekday, ret[i].hour))
                    /\ ret[i].count > 0
                    /\ \A r \in Group(ret[i].weekday, ret[i].hour) :
                           ret[i].weekday = (WeekdaySunOf(r.time_from) - 1) % 7
             /\ \A r \in window : \E i \in 1..Len(ret) :
                    /\ ret[i].weekday = weekday(DateOfText(r.time_from))
                    /\ ret[i].hour = HourOf(r.time_from)

C27_Witness ==
    /\ call.op = "get_weekday_aggregates"
    /\ {ret[i].weekday : i \in 1..Len(ret)} = 0..6
    /\ \E r \in rows : weekday(DateOfText(r.time_from)) = 6 /\ WeekdaySunOf(r.time_from) = 0

(* The weekday of a time_from whose date is not the report date. *)
WeekdayOfOtherDay ==
    /\ call.op = "get_weekday_aggregates"
    /\ rows = OfOtherDays
    /\ {ret[i].weekday : i \in 1..Len(ret)} = {6, 2}

(***************************************************************************)
(* Properties of the histogram.                                            *)
(***************************************************************************)
(* C28: the histogram of get_price_distribution counts every stored price  *)
(* of the window in exactly one bin: with 10 prices or more in the window  *)
(* the sum of counts is the number of prices, also when all prices are     *)
(* equal, and the maximum price is counted in the last bin.                *)
C28_Histogram ==
    call.op = "get_price_distribution" =>
        LET price_values == SortedPrices(rows, call.days_back)
            n == Len(price_values)
        IN n >= 10 =>
              /\ SumOfCounts(ret.counts) = n
              /\ ret.counts[Len(ret.counts)]
                     >= Cardinality({j \in 1..n : price_values[j] = price_values[n]})

(***************************************************************************)
(* Properties of the data sufficiency along the saves.                     *)
(***************************************************************************)
(* C29: data sufficiency is monotone under saving: no save_prices call,    *)
(* whether it adds rows or replaces existing ones, decreases               *)
(* get_data_days_count, so can_show_hourly_patterns and                    *)
(* can_show_statistical_forecast, once true, are true after every later    *)
(* save.                                                                   *)
C29_Monotone ==
    [][call'.op = "save_prices" =>
          /\ get_data_days_count(rows') >= get_data_days_count(rows)
          /\ get_data_sufficiency(rows).can_show_hourly_patterns
                 => get_data_sufficiency(rows').can_show_hourly_patterns
          /\ get_data_sufficiency(rows).can_show_statistical_forecast
                 => get_data_sufficiency(rows').can_show_statistical_forecast]_vars

C29_Witness ==
    /\ call.op = "save_prices"
    /\ call.prices # <<>>
    /\ fresh = FALSE
    /\ get_data_days_count(rows) = MIN_DAYS_HOURLY
    /\ get_data_sufficiency(rows).can_show_hourly_patterns

(***************************************************************************)
(* Properties of the sync command.                                         *)
(***************************************************************************)
(* C30: sync never overwrites an existing local database without consent   *)
(* or on a failed download: when the file exists, --force is not given and *)
(* the user declines the confirmation, the file is left unchanged and      *)
(* nothing is downloaded; when the download fails by an HTTP error status  *)
(* or a connection error, the file is left unchanged.                      *)
C30_Sync ==
    [][call'.op = "sync" =>
          /\ (rows # <<>> /\ ~call'.force /\ call'.answer \in {"n", ""})
                 => rows' = rows /\ ~ret'.requested
          /\ (rows # <<>> /\ ~call'.force) => ret'.asked
          /\ call'.download = RequestError => rows' = rows
          /\ (call'.download # RequestError /\ call'.download.status_code >= 400)
                 => rows' = rows]_vars

C30_Witness ==
    /\ call.op = "sync"
    /\ ~call.force
    /\ call.answer = "n"
    /\ call.download # RequestError
    /\ call.download.status_code = 200
    /\ ret = [out |-> "Zruseno.", asked |-> TRUE, requested |-> FALSE]
    /\ rows # <<>>
    /\ rows # <<call.download.content>>

====
